---- MODULE Spec2Model ----
(***************************************************************************)
(* SheetPilot: the persisted submission lifecycle of timesheet rows.       *)
(*                                                                         *)
(* The store is the `timesheet` table (status NULL = Draft, 'Submitting',  *)
(* 'Complete', 'Failed').  Every SQL statement is one atomic step; the     *)
(* awaits between the statements of timesheet_submit are the points where  *)
(* other commands of the process interleave.  Writes to the store are      *)
(* taken to succeed; the read of step 3 of timesheet_submit may fail,      *)
(* because the code has a path for it.                                     *)
(***************************************************************************)
EXTENDS Integers, Sequences, FiniteSets, TLC

\* ------------------------------------------------------------------ bounds
MaxRows == 2        \* ids the store hands out (AUTOINCREMENT: 1..MaxRows)
MaxTicks == 2       \* the clock advances at most this many times
MaxCrashes == 1     \* process crashes followed by a restart
MaxMonth == 13      \* date strings name the months 00..MaxMonth
MaxDay == 32        \* date strings name the days 00..MaxDay
MaxButtons == 2     \* fallback selectors that resolve on one page
MaxSessions == 3     \* sessions created (tokens 1..MaxSessions)

\* ------------------------------------------------------- program constants
StaleMinutes == 30  \* datetime('now', '-30 minutes')

\* One tick of the model's clock: the staleness threshold, so that a stamp
\* can be younger than, exactly as old as, and older than the threshold.
TickMinutes == StaleMinutes

Ids == 1..MaxRows
Calls == {1, 2}     \* two concurrent invocations of timesheet_submit
Services == {"smartsheet"}

\* SQL NULL / Rust None, and a present value.
NULL == <<>>
Some(v) == <<v>>

\* submitted_at = datetime('now'): no operation reads the value back, so the
\* model keeps only that the column is set.
Stamped == Some("now")

\* ------------------------------------------------------------ time strings
\* A string is a sequence of one-character strings.
Digits == <<"0", "1", "2", "3", "4", "5", "6", "7", "8", "9">>

IsDigit(c) == \E i \in 1..Len(Digits) : Digits[i] = c

DigitVal(c) == (CHOOSE i \in 1..Len(Digits) : Digits[i] = c) - 1

\* A number below 100 written with two digits.
TwoDigits(n) == <<Digits[(n \div 10) + 1], Digits[(n % 10) + 1]>>

\* str::split(':'): the parts between the colons (always at least one part).
RECURSIVE SplitColon(_)
SplitColon(s) ==
    IF \A i \in 1..Len(s) : s[i] # ":"
    THEN <<s>>
    ELSE LET k == CHOOSE i \in 1..Len(s) :
                      s[i] = ":" /\ \A j \in 1..(i - 1) : s[j] # ":"
         IN  <<SubSeq(s, 1, k - 1)>> \o SplitColon(SubSeq(s, k + 1, Len(s)))

RECURSIVE DigitsValue(_)
DigitsValue(s) ==
    IF s = <<>> THEN 0
    ELSE 10 * DigitsValue(SubSeq(s, 1, Len(s) - 1)) + DigitVal(s[Len(s)])

\* str::parse::<i64>(): an optional sign, then one or more digits.
ParseI64(s) ==
    LET signed == Len(s) > 0 /\ s[1] \in {"+", "-"}
        body   == IF signed THEN Tail(s) ELSE s
    IN  IF body = <<>> \/ \E i \in 1..Len(body) : ~IsDigit(body[i])
        THEN [ok |-> FALSE, value |-> 0]
        ELSE [ok |-> TRUE,
              value |-> IF signed /\ s[1] = "-" THEN 0 - DigitsValue(body)
                        ELSE DigitsValue(body)]

\* parse_time_to_minutes: "HH:MM" to minutes since midnight.
ParseTimeToMinutes(s) ==
    LET parts == SplitColon(s)
    IN  IF Len(parts) # 2
        THEN [ok |-> FALSE, minutes |-> 0, error |-> "Invalid time format"]
        ELSE LET h == ParseI64(parts[1])
                 m == ParseI64(parts[2])
             IN  IF ~h.ok
                 THEN [ok |-> FALSE, minutes |-> 0, error |-> "Invalid hours"]
                 ELSE IF ~m.ok
                 THEN [ok |-> FALSE, minutes |-> 0, error |-> "Invalid minutes"]
                 ELSE IF h.value < 0 \/ h.value > 23
                 THEN [ok |-> FALSE, minutes |-> 0, error |-> "Hours must be 0-23"]
                 ELSE IF m.value < 0 \/ m.value > 59
                 THEN [ok |-> FALSE, minutes |-> 0, error |-> "Minutes must be 0-59"]
                 ELSE [ok |-> TRUE, minutes |-> h.value * 60 + m.value, error |-> ""]

Option(S) == {NULL} \cup {Some(v) : v \in S}

\* The time strings the model's callers send.
T0900 == <<"0", "9", ":", "0", "0">>
T1000 == <<"1", "0", ":", "0", "0">>
T1100 == <<"1", "1", ":", "0", "0">>
T0907 == <<"0", "9", ":", "0", "7">>
T2400 == <<"2", "4", ":", "0", "0">>
TNoColon == <<"0", "9", "0", "0">>


\* The date strings the callers send, in ascending string order ("" first).
DateOrder == <<"", "2025-09-30", "2025-10-01">>
DateStrs == {DateOrder[i] : i \in 1..Len(DateOrder)}
DateRank(d) == CHOOSE i \in 1..Len(DateOrder) : DateOrder[i] = d


\* ---------------------------------------------------------------- the store
\* A row of the timesheet table.  status "Draft" is SQL NULL.
Statuses == {"Draft", "Submitting", "Complete", "Failed"}

NewRow(date, time_in, time_out, project, tool, charge_code, task) ==
    [status                |-> "Draft",
     submission_started_at |-> NULL,
     submitted_at          |-> NULL,
     date                  |-> date,
     time_in               |-> time_in,
     time_out              |-> time_out,
     project               |-> project,
     tool                  |-> tool,
     detail_charge_code    |-> charge_code,
     task_description      |-> task]

\* UNIQUE(date, time_in, project, task_description)
KeyOf(r) == <<r.date, r.time_in, r.project, r.task_description>>

IdsWithStatus(ts, st) == {i \in DOMAIN ts : ts[i].status = st}

\* A mark step that also claims the Failed rows.
MarkDraftsSubmittingBroad(ts, t) ==
    [i \in DOMAIN ts |->
        IF ts[i].status \in {"Draft", "Failed"}
        THEN [ts[i] EXCEPT !.status = "Submitting", !.submission_started_at = Some(t)]
        ELSE ts[i]]

\* The mark statement run row by row: it has got as far as the first Draft
\* row.
MarkDraftsSubmittingFirstRow(ts, t) ==
    [i \in DOMAIN ts |->
        IF ts[i].status = "Draft"
           /\ \A j \in DOMAIN ts : ts[j].status = "Draft" => i <= j
        THEN [ts[i] EXCEPT !.status = "Submitting", !.submission_started_at = Some(t)]
        ELSE ts[i]]

\* UPDATE timesheet SET status = 'Submitting', submission_started_at = now
\*  WHERE status IS NULL
MarkDraftsSubmitting(ts, t) ==
    [i \in DOMAIN ts |->
        IF ts[i].status = "Draft"
        THEN [ts[i] EXCEPT !.status = "Submitting", !.submission_started_at = Some(t)]
        ELSE ts[i]]

\* An order by id alone, the order of insertion.
RowBeforeById(ts, i, j) == i < j

\* ORDER BY date ASC, time_in ASC
RowBefore(ts, i, j) ==
    \/ DateRank(ts[i].date) < DateRank(ts[j].date)
    \/ /\ ts[i].date = ts[j].date
       /\ \/ ts[i].time_in < ts[j].time_in
          \/ ts[i].time_in = ts[j].time_in /\ i < j

\* A set of row ids as the sequence ORDER BY produces.
OrderedIds(ts, S) ==
    IF S = {} THEN <<>>
    ELSE CHOOSE q \in [1..Cardinality(S) -> S] :
            /\ \A a, b \in 1..Cardinality(S) : a < b => RowBefore(ts, q[a], q[b])

\* SELECT id, ... FROM timesheet WHERE status = 'Submitting' ORDER BY date, time_in
LoadSubmitting(ts) == OrderedIds(ts, IdsWithStatus(ts, "Submitting"))

\* UPDATE timesheet SET status = NULL, submission_started_at = NULL
\*  WHERE status = 'Submitting'
RollbackSubmitting(ts) ==
    [i \in DOMAIN ts |->
        IF ts[i].status = "Submitting"
        THEN [ts[i] EXCEPT !.status = "Draft", !.submission_started_at = NULL]
        ELSE ts[i]]

\* A completion that leaves the submitting-start stamp in place.
MarkCompleteKeepsStamp(ts, id) ==
    [i \in DOMAIN ts |->
        IF i = id
        THEN [ts[i] EXCEPT !.status = "Complete", !.submitted_at = Stamped]
        ELSE ts[i]]

\* UPDATE timesheet SET status = 'Complete', submitted_at = datetime('now'),
\*  submission_started_at = NULL WHERE id = ?
MarkComplete(ts, id) ==
    [i \in DOMAIN ts |->
        IF i = id
        THEN [ts[i] EXCEPT !.status = "Complete", !.submitted_at = Stamped,
                           !.submission_started_at = NULL]
        ELSE ts[i]]

\* UPDATE timesheet SET status = 'Failed', submission_started_at = NULL WHERE id = ?
MarkFailed(ts, id) ==
    [i \in DOMAIN ts |->
        IF i = id
        THEN [ts[i] EXCEPT !.status = "Failed", !.submission_started_at = NULL]
        ELSE ts[i]]

\* UPDATE timesheet SET status = 'Failed', submission_started_at = NULL
\*  WHERE status = 'Submitting'
FailAllSubmitting(ts) ==
    [i \in DOMAIN ts |->
        IF ts[i].status = "Submitting"
        THEN [ts[i] EXCEPT !.status = "Failed", !.submission_started_at = NULL]
        ELSE ts[i]]

\* A staleness test that also takes a stamp exactly as old as the threshold.
IsStuckInclusive(r, t) ==
    /\ r.status = "Submitting"
    /\ r.submission_started_at # NULL
    /\ r.submission_started_at[1] <= t - StaleMinutes

\* WHERE status = 'Submitting'
\*   AND datetime(submission_started_at) < datetime('now', '-30 minutes')
\* (a NULL stamp compares as NULL, which selects nothing)
IsStuck(r, t) ==
    /\ r.status = "Submitting"
    /\ r.submission_started_at # NULL
    /\ r.submission_started_at[1] < t - StaleMinutes

StuckIds(ts, t) == {i \in DOMAIN ts : IsStuck(ts[i], t)}

\* recover_stuck_submissions: the UPDATE and rows_affected()
RecoverStuck(ts, t) ==
    [rows  |-> [i \in DOMAIN ts |->
                   IF IsStuck(ts[i], t)
                   THEN [ts[i] EXCEPT !.status = "Failed", !.submission_started_at = NULL]
                   ELSE ts[i]],
     count |-> Cardinality(StuckIds(ts, t))]

\* A reset that also takes the Complete rows.
ResetFailedBroad(ts) ==
    [rows  |-> [i \in DOMAIN ts |->
                   IF ts[i].status \in {"Failed", "Complete"}
                   THEN [ts[i] EXCEPT !.status = "Draft", !.submission_started_at = NULL]
                   ELSE ts[i]],
     count |-> Cardinality(IdsWithStatus(ts, "Failed") \cup IdsWithStatus(ts, "Complete"))]

\* reset_failed_to_draft: the UPDATE and rows_affected()
ResetFailed(ts) ==
    [rows  |-> [i \in DOMAIN ts |->
                   IF ts[i].status = "Failed"
                   THEN [ts[i] EXCEPT !.status = "Draft", !.submission_started_at = NULL]
                   ELSE ts[i]],
     count |-> Cardinality(IdsWithStatus(ts, "Failed"))]

SaveRequest(id, date, time_in, time_out, project, task) ==
    [id |-> id, date |-> date, time_in |-> time_in, time_out |-> time_out,
     project |-> project, tool |-> NULL, charge_code |-> NULL,
     task_description |-> task]

\* The well-formed rows callers send to save_timesheet_draft, new or naming
\* a stored row.
ValidRequests ==
    {SaveRequest(id, DateOrder[d], T0900, T1000, "PRJ", "task") :
        id \in Option(Ids), d \in 2..Len(DateOrder)}

\* One row for each way of being rejected.
InvalidRequests ==
    {SaveRequest(NULL, "", T0900, T1000, "PRJ", "task"),
     SaveRequest(NULL, DateOrder[2], TNoColon, T1000, "PRJ", "task"),
     SaveRequest(NULL, DateOrder[2], T0900, T2400, "PRJ", "task"),
     SaveRequest(NULL, DateOrder[2], T0907, T1000, "PRJ", "task"),
     SaveRequest(NULL, DateOrder[2], T1000, T0900, "PRJ", "task"),
     SaveRequest(NULL, DateOrder[2], T0900, T0900, "PRJ", "task"),
     SaveRequest(NULL, DateOrder[2], T0900, T1000, "", "task"),
     SaveRequest(NULL, DateOrder[2], T0900, T1000, "PRJ", "")}

\* parse_time_to_minutes, tabulated over the strings the requests carry.
TimeStrs == {T0900, T1000, T1100, T0907, T2400, TNoColon}
ParsedTime == [s \in TimeStrs |-> ParseTimeToMinutes(s)]

\* The validation of save_timesheet_draft without its 15-minute check.
SaveValidationErrorAnyMinute(row) ==
    LET tin  == ParsedTime[row.time_in]
        tout == ParsedTime[row.time_out]
    IN  IF row.date = "" THEN Some("Date is required")
        ELSE IF row.project = "" THEN Some("Project is required")
        ELSE IF row.task_description = "" THEN Some("Task description is required")
        ELSE IF ~tin.ok THEN Some(tin.error)
        ELSE IF ~tout.ok THEN Some(tout.error)
        ELSE IF tout.minutes <= tin.minutes
        THEN Some("Time Out must be after Time In")
        ELSE NULL

\* save_timesheet_draft, the validation before the store is touched:
\* the error it returns, or NULL when the row is accepted.
SaveValidationError(row) ==
    LET tin  == ParsedTime[row.time_in]
        tout == ParsedTime[row.time_out]
    IN  IF row.date = "" THEN Some("Date is required")
        ELSE IF row.project = "" THEN Some("Project is required")
        ELSE IF row.task_description = "" THEN Some("Task description is required")
        ELSE IF ~tin.ok THEN Some(tin.error)
        ELSE IF ~tout.ok THEN Some(tout.error)
        ELSE IF tin.minutes % 15 # 0 \/ tout.minutes % 15 # 0
        THEN Some("Times must be in 15-minute increments")
        ELSE IF tout.minutes <= tin.minutes
        THEN Some("Time Out must be after Time In")
        ELSE NULL

\* The row as the statement's parameters carry it (times in minutes).
ParamRow(row) ==
    NewRow(row.date, ParsedTime[row.time_in].minutes,
           ParsedTime[row.time_out].minutes, row.project, row.tool,
           row.charge_code, row.task_description)

\* UPDATE timesheet SET date = ?, time_in = ?, time_out = ?, project = ?, tool = ?,
\*  detail_charge_code = ?, task_description = ?, status = NULL WHERE id = ?
\* The statement fails when it would break UNIQUE(date, time_in, project,
\* task_description); it changes 0 rows when no row has the id.
UpdateById(ts, id, row) ==
    LET p == ParamRow(row)
    IN  IF id \notin DOMAIN ts
        THEN [ok |-> TRUE, rows |-> ts, changes |-> 0]
        ELSE IF \E j \in DOMAIN ts : j # id /\ KeyOf(ts[j]) = KeyOf(p)
        THEN [ok |-> FALSE, rows |-> ts, changes |-> 0]
        ELSE [ok |-> TRUE,
              rows |-> [ts EXCEPT ![id] =
                          [@ EXCEPT !.date = p.date, !.time_in = p.time_in,
                                    !.time_out = p.time_out, !.project = p.project,
                                    !.tool = p.tool,
                                    !.detail_charge_code = p.detail_charge_code,
                                    !.task_description = p.task_description,
                                    !.status = "Draft"]],
              changes |-> 1]

\* INSERT INTO timesheet (...) VALUES (..., NULL)
\*  ON CONFLICT(date, time_in, project, task_description) DO UPDATE SET
\*    time_out = excluded.time_out, tool = excluded.tool,
\*    detail_charge_code = excluded.detail_charge_code, status = NULL
\* `next` is the id AUTOINCREMENT hands out.
Upsert(ts, next, row) ==
    LET p == ParamRow(row)
        hit == {j \in DOMAIN ts : KeyOf(ts[j]) = KeyOf(p)}
    IN  IF hit # {}
        THEN LET j == CHOOSE k \in hit : TRUE
             IN  [rows |-> [ts EXCEPT ![j] =
                              [@ EXCEPT !.time_out = p.time_out, !.tool = p.tool,
                                        !.detail_charge_code = p.detail_charge_code,
                                        !.status = "Draft"]],
                  next |-> next, changes |-> 1]
        ELSE [rows |-> [i \in DOMAIN ts \cup {next} |->
                           IF i = next THEN p ELSE ts[i]],
              next |-> next + 1, changes |-> 1]

\* A delete by id alone, whatever the status of the row.
DeleteDraftAnyStatus(ts, id) ==
    IF id \in DOMAIN ts
    THEN [rows |-> [i \in DOMAIN ts \ {id} |-> ts[i]], changes |-> 1]
    ELSE [rows |-> ts, changes |-> 0]

\* DELETE FROM timesheet WHERE id = ? AND status IS NULL
DeleteDraft(ts, id) ==
    IF id \in DOMAIN ts /\ ts[id].status = "Draft"
    THEN [rows |-> [i \in DOMAIN ts \ {id} |-> ts[i]], changes |-> 1]
    ELSE [rows |-> ts, changes |-> 0]

\* ------------------------------------------------------------------ the bot
\* What the browser and the vendor site do in one run: whether the browser
\* starts, a page opens, login and navigation succeed, each row's fill
\* succeeds (by 0-based index), and the submit click succeeds.
Outcomes(n) ==
    [start_ok : BOOLEAN, page_ok : BOOLEAN, login_ok : BOOLEAN, nav_ok : BOOLEAN,
     fill_ok : [0..(n - 1) -> BOOLEAN], submit_ok : BOOLEAN]

AutomationResult(success, submitted_indices, errors, total_rows) ==
    [success           |-> success,
     submitted_indices |-> submitted_indices,
     errors            |-> errors,
     total_rows        |-> total_rows,
     success_count     |-> Len(submitted_indices),
     failure_count     |-> Len(errors)]

\* for idx in 0..total_rows { errors.push((idx, error_msg.clone())) }
RECURSIVE AllRowsFailed(_, _)
AllRowsFailed(n, msg) ==
    IF n = 0 THEN <<>> ELSE Append(AllRowsFailed(n - 1, msg), <<n - 1, msg>>)

\* The fill loop: the indices filled, in input order.
RECURSIVE FilledIndices(_, _)
FilledIndices(n, fill_ok) ==
    IF n = 0 THEN <<>>
    ELSE IF fill_ok[n - 1] THEN Append(FilledIndices(n - 1, fill_ok), n - 1)
    ELSE FilledIndices(n - 1, fill_ok)

\* The fill loop: the errors recorded, in input order.
RECURSIVE FillErrors(_, _)
FillErrors(n, fill_ok) ==
    IF n = 0 THEN <<>>
    ELSE IF fill_ok[n - 1] THEN FillErrors(n - 1, fill_ok)
    ELSE Append(FillErrors(n - 1, fill_ok), <<n - 1, "Failed to fill row">>)

\* A demotion that records the error for the first filled row only.
DemotedFirstOnly(filled, msg) ==
    IF filled = <<>> THEN <<>> ELSE <<<<filled[1], msg>>>>

\* for idx in submitted_indices.iter() { errors.push((*idx, error_msg.clone())) }
Demoted(filled, msg) == [k \in 1..Len(filled) |-> <<filled[k], msg>>]

Ok(v) == [ok |-> TRUE, value |-> v]
Err(e) == [ok |-> FALSE, value |-> e]

\* BotOrchestrator::run_automation on n rows with a started browser.
RunAutomation(n, o) ==
    IF ~o.page_ok THEN Err("Failed to create page")
    ELSE IF ~o.login_ok
    THEN Ok([AutomationResult(FALSE, <<>>, AllRowsFailed(n, "Authentication failed"), n)
                EXCEPT !.success_count = 0, !.failure_count = n])
    ELSE IF ~o.nav_ok
    THEN Ok([AutomationResult(FALSE, <<>>, AllRowsFailed(n, "Failed to navigate to form"), n)
                EXCEPT !.success_count = 0, !.failure_count = n])
    ELSE LET filled == FilledIndices(n, o.fill_ok)
             errors == FillErrors(n, o.fill_ok)
         IN  IF filled # <<>> /\ ~o.submit_ok
             THEN Ok(AutomationResult(FALSE, <<>>,
                                      errors \o Demoted(filled, "Failed to submit form"), n))
             ELSE Ok(AutomationResult(Len(filled) > 0, filled, errors, n))

\* run_timesheet: the result, and whether a browser was started and closed.
RunTimesheet(n, o) ==
    IF n = 0
    THEN [result |-> Ok(AutomationResult(TRUE, <<>>, <<>>, 0)),
          started |-> FALSE, closed |-> FALSE]
    ELSE IF ~o.start_ok
    THEN [result |-> Err("Failed to start browser"), started |-> FALSE, closed |-> FALSE]
    ELSE [result |-> RunAutomation(n, o), started |-> TRUE, closed |-> TRUE]

\* Every way a run on n rows can end.
Runs == [n \in 0..MaxRows |-> {RunTimesheet(n, o) : o \in Outcomes(n)}]

\* ---------------------------------------------------------- the quarter router
\* A calendar date is a record [year, month, day].
IsLeapYear(y) == y % 4 = 0 /\ (y % 100 # 0 \/ y % 400 = 0)

DaysInMonth(y, m) ==
    IF m = 2 THEN (IF IsLeapYear(y) THEN 29 ELSE 28)
    ELSE IF m \in {4, 6, 9, 11} THEN 30 ELSE 31

\* NaiveDate's order: by year, then month, then day.
DateKey(d) == (d.year * 12 + (d.month - 1)) * 31 + (d.day - 1)

\* date + Duration::days(1)
NextDay(d) ==
    IF d.day < DaysInMonth(d.year, d.month) THEN [d EXCEPT !.day = d.day + 1]
    ELSE IF d.month < 12 THEN [d EXCEPT !.month = d.month + 1, !.day = 1]
    ELSE [year |-> d.year + 1, month |-> 1, day |-> 1]

\* The length of the run of digits s starts with.
DigitRun(s) ==
    CHOOSE k \in 0..Len(s) :
        /\ \A j \in 1..k : IsDigit(s[j])
        /\ k = Len(s) \/ ~IsDigit(s[k + 1])

\* What chrono's parser has read so far: the numbers of the items done and
\* the rest of the string.  NULL once an item did not match.
Parsed(values, rest) == Some([values |-> values, rest |-> rest])

\* A numeric item, scan::number(s, 1, max): one to max digits off the front
\* of the rest, as many as there are.
ScanNumber(p, max) ==
    IF p = NULL THEN NULL
    ELSE LET run == DigitRun(p[1].rest)
             n   == IF run < max THEN run ELSE max
         IN  IF n = 0 THEN NULL
             ELSE Parsed(Append(p[1].values,
                                DigitsValue(SubSeq(p[1].rest, 1, n))),
                         SubSeq(p[1].rest, n + 1, Len(p[1].rest)))

\* The rest without its first character.
Skip(p) == Parsed(p[1].values, Tail(p[1].rest))

\* The values with the last one negated.
Negated(p) ==
    IF p = NULL THEN NULL
    ELSE Parsed([p[1].values EXCEPT ![Len(p[1].values)] = 0 - @], p[1].rest)

\* The %Y item: after a sign any number of digits, without one at most four.
ScanYear(p) ==
    IF p[1].rest # <<>> /\ p[1].rest[1] = "-"
    THEN Negated(ScanNumber(Skip(p), Len(p[1].rest)))
    ELSE IF p[1].rest # <<>> /\ p[1].rest[1] = "+"
    THEN ScanNumber(Skip(p), Len(p[1].rest))
    ELSE ScanNumber(p, 4)

\* The literal "-" of the format.
ScanDash(p) ==
    IF p = NULL THEN NULL
    ELSE IF p[1].rest # <<>> /\ p[1].rest[1] = "-" THEN Skip(p)
    ELSE NULL

\* NaiveDate::from_ymd_opt: the date, if the calendar has it.
FromYmdOpt(year, month, day) ==
    IF month \notin 1..12 THEN NULL
    ELSE IF day \notin 1..DaysInMonth(year, month) THEN NULL
    ELSE Some([year |-> year, month |-> month, day |-> day])

\* The end of the parse: nothing may follow the last item.
ToNaiveDate(p) ==
    IF p = NULL THEN NULL
    ELSE IF p[1].rest # <<>> THEN NULL
    ELSE FromYmdOpt(p[1].values[1], p[1].values[2], p[1].values[3])

\* NaiveDate::parse_from_str(s, "%Y-%m-%d") on a string without whitespace:
\* Some(date), or NULL for Err.  The month and the day take one or two
\* digits.
ParseFromStr(s) ==
    ToNaiveDate(
        ScanNumber(ScanDash(ScanNumber(ScanDash(ScanYear(Parsed(<<>>, s))),
                                       2)),
                   2))

QuarterDefinition(id, name, start_date, end_date, form_url, form_id) ==
    [id |-> id, name |-> name, start_date |-> start_date,
     end_date |-> end_date, form_url |-> form_url, form_id |-> form_id]

\* A quarter list with a day missing between its second and third quarter.
GetQuarterDefinitionsWithGap ==
    << QuarterDefinition("Q1-2025", "Q1 2025",
           <<"2", "0", "2", "5", "-", "0", "1", "-", "0", "1">>,
           <<"2", "0", "2", "5", "-", "0", "3", "-", "3", "1">>,
           "https://app.smartsheet.com/b/form/q1-2025-placeholder",
           "q1-2025-placeholder"),
       QuarterDefinition("Q2-2025", "Q2 2025",
           <<"2", "0", "2", "5", "-", "0", "4", "-", "0", "1">>,
           <<"2", "0", "2", "5", "-", "0", "6", "-", "2", "9">>,
           "https://app.smartsheet.com/b/form/q2-2025-placeholder",
           "q2-2025-placeholder"),
       QuarterDefinition("Q3-2025", "Q3 2025",
           <<"2", "0", "2", "5", "-", "0", "7", "-", "0", "1">>,
           <<"2", "0", "2", "5", "-", "0", "9", "-", "3", "0">>,
           "https://app.smartsheet.com/b/form/0197cbae7daf72bdb96b3395b500d414",
           "0197cbae7daf72bdb96b3395b500d414"),
       QuarterDefinition("Q4-2025", "Q4 2025",
           <<"2", "0", "2", "5", "-", "1", "0", "-", "0", "1">>,
           <<"2", "0", "2", "5", "-", "1", "2", "-", "3", "1">>,
           "https://app.smartsheet.com/b/form/0199fabee6497e60abb6030c48d84585",
           "0199fabee6497e60abb6030c48d84585") >>

\* get_quarter_definitions: the configured quarters, in list order.
GetQuarterDefinitions ==
    << QuarterDefinition("Q1-2025", "Q1 2025",
           <<"2", "0", "2", "5", "-", "0", "1", "-", "0", "1">>,
           <<"2", "0", "2", "5", "-", "0", "3", "-", "3", "1">>,
           "https://app.smartsheet.com/b/form/q1-2025-placeholder",
           "q1-2025-placeholder"),
       QuarterDefinition("Q2-2025", "Q2 2025",
           <<"2", "0", "2", "5", "-", "0", "4", "-", "0", "1">>,
           <<"2", "0", "2", "5", "-", "0", "6", "-", "3", "0">>,
           "https://app.smartsheet.com/b/form/q2-2025-placeholder",
           "q2-2025-placeholder"),
       QuarterDefinition("Q3-2025", "Q3 2025",
           <<"2", "0", "2", "5", "-", "0", "7", "-", "0", "1">>,
           <<"2", "0", "2", "5", "-", "0", "9", "-", "3", "0">>,
           "https://app.smartsheet.com/b/form/0197cbae7daf72bdb96b3395b500d414",
           "0197cbae7daf72bdb96b3395b500d414"),
       QuarterDefinition("Q4-2025", "Q4 2025",
           <<"2", "0", "2", "5", "-", "1", "0", "-", "0", "1">>,
           <<"2", "0", "2", "5", "-", "1", "2", "-", "3", "1">>,
           "https://app.smartsheet.com/b/form/0199fabee6497e60abb6030c48d84585",
           "0199fabee6497e60abb6030c48d84585") >>

\* get_mock_quarter_definition, with MOCK_BASE_URL and MOCK_FORM_ID unset.
GetMockQuarterDefinition ==
    QuarterDefinition("MOCK-QUARTER", "Mock Quarter (Testing)",
        <<"2", "0", "0", "0", "-", "0", "1", "-", "0", "1">>,
        <<"2", "0", "9", "9", "-", "1", "2", "-", "3", "1">>,
        "http://localhost:3456",
        "mock-form-123")

\* Whether the quarter's range holds the date; a quarter whose own dates do
\* not parse is skipped.
QuarterContains(quarter, target_date) ==
    LET start_date == ParseFromStr(quarter.start_date)
        end_date   == ParseFromStr(quarter.end_date)
    IN  /\ start_date # NULL
        /\ end_date # NULL
        /\ DateKey(target_date) >= DateKey(start_date[1])
        /\ DateKey(target_date) <= DateKey(end_date[1])

\* get_quarter_for_date: Some(quarter) or NULL.  quarters is what
\* get_quarter_definitions() returns, mock_mode whether the MOCK_MODE
\* variable of the environment reads "true".
GetQuarterForDate(quarters, date_str, mock_mode) ==
    LET target   == ParseFromStr(date_str)
        hits     == {i \in 1..Len(quarters) :
                        QuarterContains(quarters[i], target[1])}
    IN  IF mock_mode THEN Some(GetMockQuarterDefinition)
        ELSE IF date_str = <<>> THEN NULL
        ELSE IF target = NULL THEN NULL
        ELSE IF hits = {} THEN NULL
        ELSE Some(quarters[CHOOSE i \in hits : \A j \in hits : i <= j])

\* ---------------------------------------------------------- the webform filler
\* str::parse::<f64>() of one part of a time string.  On strings of digits,
\* signs, ":" and the letters a to d (no ".", exponent, "inf" or "nan") it
\* takes what the i64 parse takes: an optional sign, then one or more digits.
ParseF64(s) == ParseI64(s)

\* The parse_time closure of calculate_hours: hours + minutes / 60.0, kept
\* here in minutes (sixtieths of an hour).  Neither part is held to a range.
ParseTime(time_str) ==
    LET parts == SplitColon(time_str)
    IN  IF Len(parts) # 2 THEN Err("Invalid time format")
        ELSE IF ~ParseF64(parts[1]).ok THEN Err("Invalid hours in")
        ELSE IF ~ParseF64(parts[2]).ok THEN Err("Invalid minutes in")
        ELSE Ok(ParseF64(parts[1]).value * 60 + ParseF64(parts[2]).value)

\* The decimal digits of a natural number.
RECURSIVE DecimalDigits(_)
DecimalDigits(n) ==
    IF n < 10 THEN <<Digits[n + 1]>>
    ELSE Append(DecimalDigits(n \div 10), Digits[(n % 10) + 1])

\* format!("{:.2}", total_hours) of total_minutes / 60 hours, not negative:
\* rounded to the nearest hundredth (a multiple of a minute is never halfway
\* between two hundredths of an hour).
FormatTwoDecimals(total_minutes) ==
    LET hundredths == (5 * total_minutes + 1) \div 3
    IN  DecimalDigits(hundredths \div 100) \o <<".">>
            \o TwoDigits(hundredths % 100)

\* calculate_hours: Ok(the hours as a string) or Err(the fill failure).
CalculateHours(time_in, time_out) ==
    LET start_hours == ParseTime(time_in)
        end_hours   == ParseTime(time_out)
    IN  IF ~start_hours.ok THEN start_hours
        ELSE IF ~end_hours.ok THEN end_hours
        ELSE IF end_hours.value - start_hours.value < 0
        THEN Err("Time out is before time in")
        ELSE Ok(FormatTwoDecimals(end_hours.value - start_hours.value))

\* str::to_lowercase, on ASCII
ToLowercase(s) ==
    LET upper == <<"A", "B", "C", "D", "E", "F", "G", "H", "I", "J", "K", "L",
                   "M", "N", "O", "P", "Q", "R", "S", "T", "U", "V", "W", "X",
                   "Y", "Z">>
        lower == <<"a", "b", "c", "d", "e", "f", "g", "h", "i", "j", "k", "l",
                   "m", "n", "o", "p", "q", "r", "s", "t", "u", "v", "w", "x",
                   "y", "z">>
    IN  [k \in 1..Len(s) |->
            IF \E i \in 1..26 : upper[i] = s[k]
            THEN lower[CHOOSE i \in 1..26 : upper[i] = s[k]]
            ELSE s[k]]

\* str::contains
StrContains(s, sub) ==
    \E k \in 0..(Len(s) - Len(sub)) : SubSeq(s, k + 1, k + Len(sub)) = sub

FieldDefinition(label, locator, optional) ==
    [label |-> label, locator |-> locator, optional |-> optional,
     inject_value |-> TRUE]

\* field_definitions: the configured fields, each under its key; the labels
\* are Project, Date, Hours, Task Description, Tool and Detail Charge Code.
FieldDefinitions ==
    <<
       <<"project_code",
         FieldDefinition(
             <<"P", "r", "o", "j", "e", "c", "t">>,
             "input[aria-label='Project']", FALSE)>>,
       <<"date",
         FieldDefinition(
             <<"D", "a", "t", "e">>,
             "input[placeholder='mm/dd/yyyy']", FALSE)>>,
       <<"hours",
         FieldDefinition(
             <<"H", "o", "u", "r", "s">>,
             "input[aria-label='Hours']", FALSE)>>,
       <<"task_description",
         FieldDefinition(
             <<"T", "a", "s", "k", " ", "D", "e", "s", "c", "r", "i", "p",
               "t", "i", "o", "n">>,
             "role=textbox[name='Task Description']", FALSE)>>,
       <<"tool",
         FieldDefinition(
             <<"T", "o", "o", "l">>,
             "input[aria-label*='Tool']", TRUE)>>,
       <<"detail_code",
         FieldDefinition(
             <<"D", "e", "t", "a", "i", "l", " ", "C", "h", "a", "r", "g",
               "e", " ", "C", "o", "d", "e">>,
             "input[aria-label='Detail Charge Code']", TRUE)>> >>

\* self.field_defs.get(field_key): Some(definition) or NULL
FieldDef(field_key) ==
    LET found == {i \in 1..Len(FieldDefinitions) :
                     FieldDefinitions[i][1] = field_key}
    IN  IF found = {} THEN NULL
        ELSE Some(FieldDefinitions[CHOOSE i \in found : TRUE][2])

\* field_order
FieldOrder ==
    <<"project_code", "date", "hours", "tool", "task_description",
      "detail_code">>

\* The field_values map fill_entry builds: Some(value) for the keys it holds.
FieldValues(entry, hours) ==
    [field_key \in {FieldOrder[i] : i \in 1..Len(FieldOrder)} |->
        CASE field_key = "project_code" -> Some(entry.project)
          [] field_key = "date" -> Some(entry.date)
          [] field_key = "hours" -> Some(hours)
          [] field_key = "task_description" -> Some(entry.task_description)
          [] field_key = "tool" -> entry.tool
          [] field_key = "detail_code" -> entry.charge_code]

\* is_dropdown_field that takes any label with a "t" for a dropdown's.
IsDropdownFieldLoose(label) ==
    \E field \in {<<"p", "r", "o", "j", "e", "c", "t">>, <<"t">>,
                  <<"d", "e", "t", "a", "i", "l", " ", "c", "h", "a", "r",
                    "g", "e", " ", "c", "o", "d", "e">>} :
        StrContains(ToLowercase(label), field)

\* is_dropdown_field
IsDropdownField(label) ==
    \E field \in {<<"p", "r", "o", "j", "e", "c", "t">>,
                  <<"t", "o", "o", "l">>,
                  <<"d", "e", "t", "a", "i", "l", " ", "c", "h", "a", "r",
                    "g", "e", " ", "c", "o", "d", "e">>} :
        StrContains(ToLowercase(label), field)

\* The calls fill_field makes on the page and the element, in order, while
\* each succeeds: find_element, click, type_str and, for a dropdown field,
\* the two key presses of handle_smartsheets_dropdown.
FillFieldCalls(field_def) ==
    <<"find_element", "click", "type_str">>
        \o (IF IsDropdownField(field_def.label)
            THEN <<"press_key ArrowDown", "press_key Enter">>
            ELSE <<>>)

\* submit_button_fallback_locators
SubmitButtonFallbackLocators ==
    <<"button[data-client-id='form_submit_btn']",
      "button:has-text('Submit')",
      "button:has-text('Save')",
      "button:has-text('Send')",
      "input[type='submit']",
      "button[type='submit']",
      "button.submit",
      "button[aria-label*='submit']",
      "button[aria-label*='save']",
      "button[title*='submit']",
      "button[title*='save']">>

\* -------------------------------------------------------------------- state
VARIABLES
    timesheet,    \* the timesheet table: row id -> row
    nextId,       \* the id AUTOINCREMENT hands out next
    credentials,  \* the services the credentials table has a row for
    clock,        \* ticks of the wall clock
    phase,        \* the startup task: "starting", "init_failed", "pool", "ready"
    crashes,      \* crashes so far
    call,         \* each running timesheet_submit invocation: position and locals
    last,         \* what the step just taken returned to its caller
    bot,          \* the BotOrchestrator of the run_timesheet call under way
    router,       \* the get_quarter_for_date call: its arguments and its result
    filler,       \* the WebformFiller call under way: its arguments and position
    login,        \* the run_login call under way: its arguments, position and log
    sessions      \* the sessions table, and the tokens handed out so far

vars ==
    <<timesheet, nextId, credentials, clock, phase, crashes, call, last, bot,
      router, filler, login, sessions>>

\* datetime('now'), in minutes
Now == clock * TickMinutes

\* DB_POOL.get() is Some
PoolSet == phase \in {"pool", "ready"}

Message(msg, n, detail) == [msg |-> msg, n |-> n, detail |-> detail]

\* What timesheet_submit reads of the AutomationResult it is handed.
ResultRead(r) ==
    [success           |-> r.success,
     submitted_indices |-> r.submitted_indices,
     total_rows        |-> r.total_rows,
     success_count     |-> r.success_count]

NoResult == ResultRead(AutomationResult(FALSE, <<>>, <<>>, 0))

\* A call that is not running.  claimed is history: the rows the mark step
\* of the call moved from Draft to Submitting.  errors is the errors of the
\* AutomationResult the call holds, which none of its steps reads.
IdleCall ==
    [pc            |-> "idle",
     claimed       |-> {},
     db_entries    |-> <<>>,
     result        |-> NoResult,
     errors        |-> <<>>,
     idx           |-> 0,
     submitted_ids |-> <<>>,
     failed_count  |-> 0,
     bot_error     |-> ""]

\* BotOrchestrator and the locals of run_automation and run_login, with the
\* history of what the run has attempted: whether a page load succeeded, the
\* login steps executed and whether the last one succeeded, the indices
\* fill_entry was called with, the calls of submit_form and whether it
\* failed, the calls of run_login, navigate_to_form and verify_submission,
\* what verify_submission met on the page and returned,
\* the calls of close and what the last one returned.
IdleBot ==
    [pc                |-> "idle",
     browser_manager   |-> FALSE,
     total_rows        |-> 0,
     attempt           |-> 0,
     loaded            |-> FALSE,
     step              |-> 0,
     step_ok           |-> TRUE,
     submitted_indices |-> <<>>,
     errors            |-> <<>>,
     fills             |-> <<>>,
     login_log         |-> <<>>,
     submits           |-> 0,
     submit_failed     |-> FALSE,
     logins            |-> 0,
     navigations       |-> 0,
     verifies          |-> 0,
     verified          |-> NULL,
     started           |-> FALSE,
     closes            |-> 0,
     close_ret         |-> "",
     outcome           |-> NULL]

\* No call on the WebformFiller made yet.  Of a call it keeps the entry and
\* the hours computed for it, the place in field_order and in the calls of
\* fill_field, the page calls made so far (field key and call), the optional
\* fields whose failure was passed over, the buttons the page holds, the
\* place in the fallback selectors, the selectors whose button was clicked
\* and what the call returned.
IdleFiller ==
    [pc |-> "idle", entry |-> NULL, hours |-> NULL, field |-> 0, step |-> 0,
     log |-> <<>>, tolerated |-> <<>>, page |-> NULL, selector |-> 0,
     clicks |-> <<>>, result |-> NULL]

\* An empty sessions table.  Tokens are numbered in the order they are
\* handed out (Uuid::new_v4() never repeats).
NoSessions == [rows |-> <<>>, tokens |-> 0]

\* No get_quarter_for_date call made yet.  quarters is the list built into
\* get_quarter_definitions().
IdleRouter ==
    [quarters |-> GetQuarterDefinitions, date_str |-> <<>>, mock_mode |-> FALSE,
     called |-> FALSE, result |-> NULL]

\* `last` is a history of the step just taken: the command that returned in
\* it, its response, and whether the command had started a browser.  A step
\* in which no command returns leaves NoCommand.  A specification that does
\* not read the responses starts with `last` unrecorded, and it stays so.
Response(op, success, changes, error, submit_result, launched) ==
    [op |-> op, success |-> success, changes |-> changes, error |-> error,
     submit_result |-> submit_result, launched |-> launched]

NoCommand == Response("none", TRUE, NULL, NULL, NULL, FALSE)

Unrecorded == Response("unrecorded", TRUE, NULL, NULL, NULL, FALSE)

Returns(r) == last' = IF last = Unrecorded THEN Unrecorded ELSE r

\* SaveDraftResponse { success, changes, error }
SaveDraftResponse(op, success, changes, error) ==
    Response(op, success, changes, error, NULL, FALSE)

\* SubmitResponse { error, submit_result }
SubmitResponse(error, submit_result, launched) ==
    Response("timesheet_submit", error = NULL, NULL, error, submit_result, launched)

\* The first start of the process, on an empty database.
FirstStart ==
    /\ timesheet = <<>>
    /\ nextId = 1
    /\ credentials = {}
    /\ clock = 0
    /\ phase = "starting"
    /\ crashes = 0
    /\ call = [c \in Calls |-> IdleCall]
    /\ bot = IdleBot

\* ------------------------------------------------------------------ startup
\* database::initialize succeeds: DB_POOL.set(pool)
Initialize ==
    /\ phase = "starting"
    /\ phase' = "pool"
    /\ Returns(NoCommand)
    /\ UNCHANGED <<sessions, login, filler, router, bot, timesheet, nextId, credentials, clock, crashes, call>>

\* database::initialize fails: the spawned task logs and returns
InitializeFails ==
    /\ phase = "starting"
    /\ phase' = "init_failed"
    /\ Returns(NoCommand)
    /\ UNCHANGED <<sessions, login, filler, router, bot, timesheet, nextId, credentials, clock, crashes, call>>

\* the spawned task's recovery::recover_stuck_submissions(pool)
StartupRecovery ==
    /\ phase = "pool"
    /\ LET r == RecoverStuck(timesheet, Now)
       IN  /\ timesheet' = r.rows
           /\ Returns(SaveDraftResponse("recover_stuck_submissions", TRUE,
                                        Some(r.count), NULL))
    /\ phase' = "ready"
    /\ UNCHANGED <<sessions, login, filler, router, bot, nextId, credentials, clock, crashes, call>>

\* The process dies (crash or forced termination) and is started again:
\* the store survives, every running call is gone.
Crash ==
    /\ crashes < MaxCrashes
    /\ crashes' = crashes + 1
    /\ phase' = "starting"
    /\ call' = [c \in Calls |-> IdleCall]
    /\ bot' = IdleBot
    /\ Returns(NoCommand)
    /\ UNCHANGED <<sessions, login, filler, router, timesheet, nextId, credentials, clock>>

Tick ==
    /\ clock < MaxTicks
    /\ clock' = clock + 1
    /\ Returns(NoCommand)
    /\ UNCHANGED <<sessions, login, filler, router, bot, timesheet, nextId, credentials, phase, crashes, call>>

\* -------------------------------------------------------------- credentials
CredentialsStore(service) ==
    /\ PoolSet
    /\ credentials' = credentials \cup {service}
    /\ Returns(NoCommand)
    /\ UNCHANGED <<sessions, login, filler, router, bot, timesheet, nextId, clock, phase, crashes, call>>

CredentialsDelete(service) ==
    /\ PoolSet
    /\ credentials' = credentials \ {service}
    /\ Returns(NoCommand)
    /\ UNCHANGED <<sessions, login, filler, router, bot, timesheet, nextId, clock, phase, crashes, call>>

\* --------------------------------------------------------- timesheet_submit
\* A first step that goes on to mark without looking for the credentials.
SubmitCredentialsUnchecked(c, service) ==
    /\ call[c].pc = "idle"
    /\ PoolSet
    /\ Returns(NoCommand)
    /\ call' = [call EXCEPT ![c] = [IdleCall EXCEPT !.pc = "mark"]]
    /\ UNCHANGED <<sessions, login, filler, router, bot, timesheet, nextId, credentials, clock, phase, crashes>>

\* get_pool and step 1: the stored credentials of the service.
SubmitCredentials(c, service) ==
    /\ call[c].pc = "idle"
    /\ IF ~PoolSet
       THEN /\ Returns(SubmitResponse(
                   Some(Message("Database error", 0, "Database not initialized")),
                   NULL, FALSE))
            /\ UNCHANGED call
       ELSE IF service \notin credentials
       THEN /\ Returns(SubmitResponse(
                   Some(Message("No credentials found for service", 0, service)),
                   NULL, FALSE))
            /\ UNCHANGED call
       ELSE /\ Returns(NoCommand)
            /\ call' = [call EXCEPT ![c] = [IdleCall EXCEPT !.pc = "mark"]]
    /\ UNCHANGED <<sessions, login, filler, router, bot, timesheet, nextId, credentials, clock, phase, crashes>>

\* Step 2: mark the draft rows; rows_marked = rows_affected().
SubmitMark(c) ==
    /\ call[c].pc = "mark"
    /\ LET marked      == MarkDraftsSubmitting(timesheet, Now)
           moved       == {i \in DOMAIN timesheet : marked[i] # timesheet[i]}
           rows_marked == Cardinality(moved)
       IN  /\ timesheet' = marked
           /\ IF rows_marked = 0
              THEN /\ call' = [call EXCEPT ![c] = IdleCall]
                   /\ Returns(SubmitResponse(
                          Some(Message("No draft entries to submit", 0, "")),
                          NULL, FALSE))
              ELSE /\ call' = [call EXCEPT ![c] = [@ EXCEPT !.pc = "load",
                                                            !.claimed = moved]]
                   /\ Returns(NoCommand)
    /\ UNCHANGED <<sessions, login, filler, router, bot, nextId, credentials, clock, phase, crashes>>

\* Step 3: load the entries to submit from the store.
SubmitLoad(c) ==
    /\ call[c].pc = "load"
    /\ call' = [call EXCEPT ![c] = [@ EXCEPT !.pc = "run",
                                              !.db_entries = LoadSubmitting(timesheet)]]
    /\ Returns(NoCommand)
    /\ UNCHANGED <<sessions, login, filler, router, bot, timesheet, nextId, credentials, clock, phase, crashes>>

\* Step 3, the query fails.
SubmitLoadFails(c) ==
    /\ call[c].pc = "load"
    /\ call' = [call EXCEPT ![c] = [@ EXCEPT !.pc = "rollback"]]
    /\ Returns(NoCommand)
    /\ UNCHANGED <<sessions, login, filler, router, bot, timesheet, nextId, credentials, clock, phase, crashes>>

\* Step 3, "Rollback on error", and the error response.
SubmitRollback(c) ==
    /\ call[c].pc = "rollback"
    /\ timesheet' = RollbackSubmitting(timesheet)
    /\ call' = [call EXCEPT ![c] = IdleCall]
    /\ Returns(SubmitResponse(
           Some(Message("Failed to load entries from database", 0, "")), NULL, FALSE))
    /\ UNCHANGED <<sessions, login, filler, router, bot, nextId, credentials, clock, phase, crashes>>

\* The response after the reconcile loop.
ReconciledResponse(result, submitted_ids, failed_count, launched) ==
    SubmitResponse(
        IF failed_count > 0
        THEN Some(Message("entries failed to submit", failed_count, ""))
        ELSE NULL,
        Some([ok              |-> result.success,
              submitted_ids   |-> submitted_ids,
              total_processed |-> result.total_rows,
              success_count   |-> result.success_count]),
        launched)

\* Step 5's match on the bot's result.  With no row loaded the reconcile
\* loop is empty and the call returns at once.
BotResult(c, run) ==
    IF ~run.result.ok
    THEN /\ call' = [call EXCEPT ![c] = [@ EXCEPT !.pc = "fail_all",
                                                  !.bot_error = run.result.value]]
         /\ Returns(NoCommand)
    ELSE IF call[c].db_entries = <<>>
    THEN /\ call' = [call EXCEPT ![c] = IdleCall]
         /\ Returns(ReconciledResponse(ResultRead(run.result.value), <<>>, 0,
                                       run.started))
    ELSE /\ call' = [call EXCEPT ![c] =
                       [@ EXCEPT !.pc = "reconcile",
                                 !.result = ResultRead(run.result.value),
                                 !.errors = run.result.value.errors,
                                 !.idx = 0]]
         /\ Returns(NoCommand)

\* Step 4 in one step: a whole run of the bot, ended in any of the ways a
\* run can end.
SubmitRun(c) ==
    /\ call[c].pc = "run"
    /\ bot.pc = "idle"
    /\ \E run \in Runs[Len(call[c].db_entries)] : BotResult(c, run)
    /\ UNCHANGED <<sessions, login, filler, router, bot, timesheet, nextId, credentials, clock, phase, crashes>>

\* result.submitted_indices.contains(&idx)
Contains(seq, v) == \E k \in 1..Len(seq) : seq[k] = v

\* Step 5, Ok(result): one turn of the loop over db_entries, and the response
\* after the last turn.  A result is only reconciled after a run on at least
\* one row, which had started a browser.
SubmitReconcile(c) ==
    /\ call[c].pc = "reconcile"
    /\ LET k      == call[c].idx
           id     == call[c].db_entries[k + 1]
           filled == Contains(call[c].result.submitted_indices, k)
           ids    == IF filled THEN Append(call[c].submitted_ids, id)
                     ELSE call[c].submitted_ids
           failed == IF filled THEN call[c].failed_count
                     ELSE call[c].failed_count + 1
       IN  /\ timesheet' = IF filled THEN MarkComplete(timesheet, id)
                           ELSE MarkFailed(timesheet, id)
           /\ IF k + 1 = Len(call[c].db_entries)
              THEN /\ call' = [call EXCEPT ![c] = IdleCall]
                   /\ Returns(ReconciledResponse(call[c].result, ids, failed, TRUE))
              ELSE /\ call' = [call EXCEPT ![c] =
                                 [@ EXCEPT !.idx = k + 1, !.submitted_ids = ids,
                                           !.failed_count = failed]]
                   /\ Returns(NoCommand)
    /\ UNCHANGED <<sessions, login, filler, router, bot, nextId, credentials, clock, phase, crashes>>

\* Step 5, Err(e): "Bot failed completely - mark all as Failed".  The browser
\* had started unless starting it is what failed.
SubmitFailAll(c) ==
    /\ call[c].pc = "fail_all"
    /\ timesheet' = FailAllSubmitting(timesheet)
    /\ call' = [call EXCEPT ![c] = IdleCall]
    /\ Returns(SubmitResponse(
           Some(Message("Automation failed", 0, call[c].bot_error)), NULL,
           call[c].bot_error # "Failed to start browser"))
    /\ UNCHANGED <<sessions, login, filler, router, bot, nextId, credentials, clock, phase, crashes>>

\* The steps of a running timesheet_submit call.
SubmitStep(c) ==
    \/ SubmitMark(c)
    \/ SubmitLoad(c)
    \/ SubmitLoadFails(c)
    \/ SubmitRollback(c)
    \/ SubmitRun(c)
    \/ SubmitReconcile(c)
    \/ SubmitFailAll(c)

\* ----------------------------------------------------------- draft commands
SaveTimesheetDraft(row) ==
    /\ LET invalid == SaveValidationError(row)
           op      == "save_timesheet_draft"
       IN  IF invalid # NULL
           THEN /\ Returns(SaveDraftResponse(op, FALSE, NULL,
                                             Some(Message(invalid[1], 0, ""))))
                /\ UNCHANGED <<sessions, login, filler, router, bot, timesheet, nextId>>
           ELSE IF ~PoolSet
           THEN /\ Returns(SaveDraftResponse(op, FALSE, NULL,
                               Some(Message("Database not initialized", 0, ""))))
                /\ UNCHANGED <<sessions, login, filler, router, bot, timesheet, nextId>>
           ELSE IF row.id # NULL
           THEN LET u == UpdateById(timesheet, row.id[1], row)
                IN  /\ timesheet' = u.rows
                    /\ Returns(IF u.ok
                               THEN SaveDraftResponse(op, TRUE, Some(u.changes), NULL)
                               ELSE SaveDraftResponse(op, FALSE, NULL,
                                        Some(Message("Database error", 0, ""))))
                    /\ UNCHANGED nextId
           ELSE /\ \/ nextId <= MaxRows
                   \/ \E j \in DOMAIN timesheet : KeyOf(timesheet[j]) = KeyOf(ParamRow(row))
                /\ LET u == Upsert(timesheet, nextId, row)
                   IN  /\ timesheet' = u.rows
                       /\ nextId' = u.next
                       /\ Returns(SaveDraftResponse(op, TRUE, Some(u.changes), NULL))
    /\ UNCHANGED <<sessions, login, filler, router, bot, credentials, clock, phase, crashes, call>>

DeleteTimesheetDraft(id) ==
    /\ LET op == "delete_timesheet_draft"
       IN  IF ~PoolSet
           THEN /\ Returns(SaveDraftResponse(op, FALSE, NULL,
                               Some(Message("Database not initialized", 0, ""))))
                /\ UNCHANGED timesheet
           ELSE LET d == DeleteDraft(timesheet, id)
                IN  /\ timesheet' = d.rows
                    /\ Returns(IF d.changes = 0
                               THEN SaveDraftResponse(op, FALSE, Some(0),
                                        Some(Message("Draft entry not found", 0, "")))
                               ELSE SaveDraftResponse(op, TRUE, Some(d.changes), NULL))
    /\ UNCHANGED <<sessions, login, filler, router, bot, nextId, credentials, clock, phase, crashes, call>>

\* recovery::reset_failed_to_draft, on the user's request
ResetFailedToDraft ==
    /\ PoolSet
    /\ LET r == ResetFailed(timesheet)
       IN  /\ timesheet' = r.rows
           /\ Returns(SaveDraftResponse("reset_failed_to_draft", TRUE,
                                        Some(r.count), NULL))
    /\ UNCHANGED <<sessions, login, filler, router, bot, nextId, credentials, clock, phase, crashes, call>>

\* ---------------------------------------------------------- the bot, stepwise
\* LoginManager::new: max_retries
MaxRetries == 3

LoginStep(name, action, locator, value_key, optional, sensitive) ==
    [name |-> name, action |-> action, locator |-> locator,
     value_key |-> value_key, optional |-> optional, sensitive |-> sensitive]

\* automation_config::login_steps()
LoginSteps ==
    << LoginStep("Wait for Login Form", "Wait", NULL, NULL, TRUE, FALSE),
       LoginStep("Email Input", "Input", Some("#loginEmail"), Some("email"),
                 FALSE, TRUE),
       LoginStep("Continue", "Click", Some("#formControl"), NULL, TRUE, FALSE),
       LoginStep("Wait for SSO Choice", "Wait", NULL, NULL, TRUE, FALSE),
       LoginStep("Login with company account", "Click",
                 Some("a.clsJspButtonWide"), NULL, TRUE, FALSE),
       LoginStep("Wait for AAD Email", "Wait", NULL, NULL, FALSE, FALSE),
       LoginStep("AAD Email", "Input", Some("#i0116"), Some("email"), FALSE, TRUE),
       LoginStep("AAD Next", "Click", Some("#idSIButton9"), NULL, TRUE, FALSE),
       LoginStep("Wait for Password", "Wait", NULL, NULL, FALSE, FALSE),
       LoginStep("Password Input", "Input", Some("#passwordInput"),
                 Some("password"), FALSE, TRUE),
       LoginStep("Password Submit", "Click", Some("#submitButton"), NULL,
                 TRUE, FALSE),
       LoginStep("Stay Signed In Prompt", "Wait", NULL, NULL, TRUE, FALSE),
       LoginStep("Stay Signed In - No", "Click", Some("#idBtn_Back"), NULL,
                 TRUE, FALSE),
       LoginStep("Wait for Form Page Ready", "Wait", NULL, NULL, FALSE, FALSE) >>

BotStep(b) ==
    /\ bot' = b
    /\ Returns(NoCommand)
    /\ UNCHANGED <<sessions, login, filler, router, timesheet, nextId, credentials, clock, phase, crashes, call>>

\* The value run_automation returns goes to run_timesheet, which closes the
\* browser next.
Finished(b, result) == [b EXCEPT !.pc = "close", !.outcome = Some(result)]

\* A failure result that records the error for the first row only.
AllFailedResultFirstRowOnly(b, msg) ==
    Ok([AutomationResult(FALSE, b.submitted_indices,
                         Append(b.errors, <<0, msg>>), b.total_rows)
           EXCEPT !.success_count = 0, !.failure_count = b.total_rows])

\* Err(e) of run_login, or of navigate_to_form: every row fails with msg.
AllFailedResult(b, msg) ==
    Ok([AutomationResult(FALSE, b.submitted_indices,
                         b.errors \o AllRowsFailed(b.total_rows, msg), b.total_rows)
           EXCEPT !.success_count = 0, !.failure_count = b.total_rows])

\* The tail of run_automation: the counts and the result.
FinalResult(b) ==
    Ok(AutomationResult(Len(b.submitted_indices) > 0, b.submitted_indices,
                        b.errors, b.total_rows))

\* timesheet_submit calls run_timesheet with the rows it loaded.  An empty
\* list returns at once, with no orchestrator made.
RunTimesheetCall(c) ==
    /\ call[c].pc = "run"
    /\ bot.pc = "idle"
    /\ LET n == Len(call[c].db_entries)
       IN  IF n = 0
           THEN BotStep([IdleBot EXCEPT
                            !.pc = "returned",
                            !.outcome = Some(Ok(AutomationResult(TRUE, <<>>, <<>>, 0)))])
           ELSE BotStep([IdleBot EXCEPT !.pc = "start", !.total_rows = n])

\* bot.start()
BotStart ==
    /\ bot.pc = "start"
    /\ \E ok \in BOOLEAN :
          IF ok
          THEN BotStep([bot EXCEPT !.pc = "new_page", !.browser_manager = TRUE,
                                   !.started = TRUE])
          ELSE BotStep([bot EXCEPT !.pc = "returned",
                                   !.outcome = Some(Err("Failed to start browser"))])

\* A page-creation failure that leaves run_timesheet without closing.
BotNewPageLeaks ==
    /\ bot.pc = "new_page"
    /\ \E ok \in BOOLEAN :
          IF ok
          THEN BotStep([bot EXCEPT !.pc = "goto", !.logins = @ + 1])
          ELSE BotStep([bot EXCEPT !.pc = "returned",
                                   !.outcome = Some(Err("Failed to create page"))])

\* browser.new_page()
BotNewPage ==
    /\ bot.pc = "new_page"
    /\ \E ok \in BOOLEAN :
          IF ok
          THEN BotStep([bot EXCEPT !.pc = "goto", !.logins = @ + 1])
          ELSE BotStep(Finished(bot, Err("Failed to create page")))

\* A navigation loop that allows one attempt more than max_retries.
LoginNavigateOneMore ==
    /\ bot.pc = "goto"
    /\ bot.attempt <= MaxRetries
    /\ \E ok \in BOOLEAN :
          LET attempt == bot.attempt + 1
          IN  IF ok
              THEN BotStep([bot EXCEPT !.attempt = attempt, !.loaded = TRUE,
                                       !.pc = IF Len(LoginSteps) = 0 THEN "navigate"
                                              ELSE "login_step"])
              ELSE IF attempt > MaxRetries
              THEN BotStep(Finished([bot EXCEPT !.attempt = attempt],
                                    AllFailedResult(bot, "Authentication failed")))
              ELSE BotStep([bot EXCEPT !.attempt = attempt])

\* run_login: one turn of the navigation loop
LoginNavigate ==
    /\ bot.pc = "goto"
    /\ bot.attempt < MaxRetries
    /\ \E ok \in BOOLEAN :
          LET attempt == bot.attempt + 1
          IN  IF ok
              THEN BotStep([bot EXCEPT !.attempt = attempt, !.loaded = TRUE,
                                       !.pc = IF Len(LoginSteps) = 0 THEN "navigate"
                                              ELSE "login_step"])
              ELSE IF attempt >= MaxRetries
              THEN BotStep(Finished([bot EXCEPT !.attempt = attempt],
                                    AllFailedResult(bot, "Authentication failed")))
              ELSE BotStep([bot EXCEPT !.attempt = attempt])

\* What executing a step can return: execute_wait_step returns Ok for an
\* optional step whose element is not found.
StepOutcomes(step) ==
    IF step.action = "Wait" /\ step.optional THEN {TRUE} ELSE BOOLEAN

\* A login loop that aborts on any failing step, optional or not.
LoginExecuteStepStrict ==
    /\ bot.pc = "login_step"
    /\ \E ok \in StepOutcomes(LoginSteps[bot.step + 1]) :
          LET i   == bot.step + 1
              ran == [bot EXCEPT !.step = i, !.login_log = Append(@, i)]
          IN  IF ~ok
              THEN BotStep(Finished([ran EXCEPT !.step_ok = FALSE],
                                    AllFailedResult(bot, "Authentication failed")))
              ELSE IF i = Len(LoginSteps)
              THEN BotStep([ran EXCEPT !.pc = "navigate", !.step_ok = ok])
              ELSE BotStep([ran EXCEPT !.step_ok = ok])

\* run_login: one turn of the loop over login_steps()
LoginExecuteStep ==
    /\ bot.pc = "login_step"
    /\ \E ok \in StepOutcomes(LoginSteps[bot.step + 1]) :
          LET i   == bot.step + 1
              ran == [bot EXCEPT !.step = i, !.login_log = Append(@, i)]
          IN  IF ~ok /\ ~LoginSteps[i].optional
              THEN BotStep(Finished([ran EXCEPT !.step_ok = FALSE],
                                    AllFailedResult(bot, "Authentication failed")))
              ELSE IF i = Len(LoginSteps)
              THEN BotStep([ran EXCEPT !.pc = "navigate", !.step_ok = ok])
              ELSE BotStep([ran EXCEPT !.step_ok = ok])

\* webform_filler.navigate_to_form
NavigateToForm ==
    /\ bot.pc = "navigate"
    /\ \E ok \in BOOLEAN :
          IF ok
          THEN BotStep([bot EXCEPT !.pc = "fill", !.step_ok = TRUE,
                                   !.navigations = @ + 1])
          ELSE BotStep(Finished([bot EXCEPT !.step_ok = TRUE, !.navigations = @ + 1],
                                AllFailedResult(bot, "Failed to navigate to form")))

\* A fill loop that gives up at the first row whose fill fails.
FillEntryStopsAtFailure ==
    /\ bot.pc = "fill"
    /\ \E ok \in BOOLEAN :
          LET idx == Len(bot.fills)
              b   == [bot EXCEPT
                         !.fills = Append(@, idx),
                         !.submitted_indices = IF ok THEN Append(@, idx) ELSE @,
                         !.errors = IF ok THEN @
                                    ELSE Append(@, <<idx, "Failed to fill row">>)]
          IN  IF ok /\ idx + 1 < bot.total_rows
              THEN BotStep(b)
              ELSE IF b.submitted_indices # <<>>
              THEN BotStep([b EXCEPT !.pc = "submit"])
              ELSE BotStep(Finished(b, FinalResult(b)))

\* One turn of the fill loop; after the last, on to the submit if any row
\* was filled.
FillEntry ==
    /\ bot.pc = "fill"
    /\ \E ok \in BOOLEAN :
          LET idx == Len(bot.fills)
              b   == [bot EXCEPT
                         !.fills = Append(@, idx),
                         !.submitted_indices = IF ok THEN Append(@, idx) ELSE @,
                         !.errors = IF ok THEN @
                                    ELSE Append(@, <<idx, "Failed to fill row">>)]
          IN  IF idx + 1 < bot.total_rows
              THEN BotStep(b)
              ELSE IF b.submitted_indices # <<>>
              THEN BotStep([b EXCEPT !.pc = "submit"])
              ELSE BotStep(Finished(b, FinalResult(b)))

\* What verify_submission can meet: the page's URL cannot be read, the URL
\* or the page holds a sign of success, or neither does.
VerifyObservations == {"url failed", "success indicator", "nothing"}

\* verify_submission: "Submission status unclear, assuming success"
VerifySubmission(seen) ==
    IF seen = "url failed" THEN Err("Failed to get URL") ELSE Ok("true")

\* The bot after a call of verify_submission.
Verified(b, seen) ==
    [b EXCEPT !.verifies = @ + 1,
              !.verified = Some([seen |-> seen, result |-> VerifySubmission(seen)])]

\* A submit whose failure leaves the filled-index list as it was.
SubmitFormKeepsFilled ==
    /\ bot.pc = "submit"
    /\ \E ok \in BOOLEAN :
          LET b == IF ok THEN Verified([bot EXCEPT !.submits = @ + 1], "nothing")
                   ELSE [bot EXCEPT
                            !.submits = @ + 1,
                            !.submit_failed = TRUE,
                            !.errors = @ \o Demoted(bot.submitted_indices,
                                                    "Failed to submit form")]
          IN  BotStep(Finished(b, FinalResult(b)))

\* A submit that is tried a second time after it failed.
SubmitFormAgain ==
    /\ bot.pc = "submit"
    /\ \E ok \in BOOLEAN :
          LET b == IF ok THEN Verified([bot EXCEPT !.submits = @ + 1], "nothing")
                   ELSE [bot EXCEPT
                            !.submits = @ + 1,
                            !.submit_failed = TRUE,
                            !.errors = @ \o Demoted(bot.submitted_indices,
                                                    "Failed to submit form"),
                            !.submitted_indices = <<>>]
          IN  IF ~ok /\ bot.submits = 0
              THEN BotStep([bot EXCEPT !.submits = @ + 1])
              ELSE BotStep(Finished(b, FinalResult(b)))

\* The submit of a run and what follows it, with verification counted as
\* failed when it finds no sign of success.
AfterSubmitVerifyStrict(b, ok, seen) ==
    IF ok /\ seen # "nothing"
    THEN Verified([b EXCEPT !.submits = @ + 1], seen)
    ELSE [(IF ok THEN Verified(b, seen) ELSE b) EXCEPT
             !.submits = @ + 1,
             !.submit_failed = TRUE,
             !.errors = @ \o Demoted(b.submitted_indices, "Failed to submit form"),
             !.submitted_indices = <<>>]

\* Step 4 of run_automation: after submit_form returned Ok,
\* verify_submission, whose answer is only logged; after it returned Err,
\* every filled row is moved to the errors.
AfterSubmit(b, ok, seen) ==
    IF ok
    THEN Verified([b EXCEPT !.submits = @ + 1], seen)
    ELSE [b EXCEPT
             !.submits = @ + 1,
             !.submit_failed = TRUE,
             !.errors = @ \o Demoted(b.submitted_indices, "Failed to submit form"),
             !.submitted_indices = <<>>]

\* webform_filler.submit_form, verify_submission, and the result
SubmitForm ==
    /\ bot.pc = "submit"
    /\ \E ok \in BOOLEAN, seen \in VerifyObservations :
          LET b == AfterSubmit(bot, ok, seen)
          IN  BotStep(Finished(b, FinalResult(b)))

\* BotOrchestrator::close: take() the browser; closing it may fail.
Close(b, close_ok) ==
    [b EXCEPT !.browser_manager = FALSE,
              !.closes = IF @ < 2 THEN @ + 1 ELSE @,
              !.close_ret = IF b.browser_manager /\ ~close_ok THEN "Err" ELSE "Ok"]

\* let _ = bot.close().await; result
BotClose ==
    /\ bot.pc = "close"
    /\ \E close_ok \in BOOLEAN :
          BotStep([Close(bot, close_ok) EXCEPT !.pc = "returned"])

\* close() on an orchestrator that holds no browser: before start, or after
\* a first close.
CloseAgain ==
    /\ bot.pc \in {"start", "returned"}
    /\ bot.total_rows > 0
    /\ \E close_ok \in BOOLEAN : BotStep(Close(bot, close_ok))

\* Step 5 of timesheet_submit takes what run_timesheet returned.
RunTimesheetReturn(c) ==
    /\ call[c].pc = "run"
    /\ bot.pc = "returned"
    /\ BotResult(c, [result |-> bot.outcome[1], started |-> bot.started,
                     closed |-> bot.closes > 0])
    /\ bot' = IdleBot
    /\ UNCHANGED <<sessions, login, filler, router, timesheet, nextId, credentials, clock, phase, crashes>>

\* ------------------------------------------------------ run_login in detail
\* "<redacted>"
RedactedMarker == <<"<", "r", "e", "d", "a", "c", "t", "e", "d", ">">>

\* redact_email: "***" and the address from its first '@' on, "***" alone
\* for an address without one.
RedactEmail(email) ==
    LET ats == {k \in 1..Len(email) : email[k] = "@"}
    IN  IF ats # {}
        THEN <<"*", "*", "*">>
                \o SubSeq(email, CHOOSE k \in ats : \A j \in ats : k <= j,
                          Len(email))
        ELSE <<"*", "*", "*">>

\* A log record: its message and the one field that may hold text of the
\* credentials.  The other fields (step names, counts, locators, the
\* browser's errors) hold none and are left out.
LogRecord(message, value) == [message |-> message, value |-> value]

\* tracing::info!(..., email = %redacted_email, "Starting login process")
StartingRecords(email) ==
    <<LogRecord("Starting login process", RedactEmail(email))>>

\* execute_input_step: the result, and the record it logs before it turns
\* to the page.  page_ok is whether find_element, click and type_str all
\* succeed.
ExecuteInputStep(step, email, password, page_ok) ==
    IF step.locator = NULL
    THEN [result |-> Err("Input step missing locator"), log |-> <<>>]
    ELSE IF step.value_key = NULL
    THEN [result |-> Err("Input step missing value_key"), log |-> <<>>]
    ELSE IF step.value_key[1] \notin {"email", "password"}
    THEN [result |-> Err("Unknown value_key"), log |-> <<>>]
    ELSE LET value == IF step.value_key[1] = "email" THEN email ELSE password
         IN  [result |-> IF page_ok THEN Ok("()") ELSE Err("Input field not found"),
              log    |-> <<LogRecord("Filling input field",
                                     IF step.sensitive THEN RedactedMarker
                                     ELSE value)>>]

\* The match on step.action in run_login.
ExecuteStep(step, email, password, page_ok) ==
    IF step.action = "Input"
    THEN ExecuteInputStep(step, email, password, page_ok)
    ELSE [result |-> IF page_ok THEN Ok("()") ELSE Err("Element not found"),
          log |-> <<>>]

\* No run_login call made.  Of a call it keeps the steps configured, the
\* credentials, the number of steps gone through, the steps executed, the
\* records logged and what the call returned.
IdleLogin ==
    [pc |-> "idle", steps |-> <<>>, email |-> <<>>, password |-> <<>>,
     step |-> 0, executed |-> <<>>, log |-> <<>>, result |-> NULL]

LoginCallStep(l) ==
    /\ login' = l
    /\ UNCHANGED <<timesheet, nextId, credentials, clock, phase, crashes,
                   call, last, bot, router, filler, sessions>>

LoginReturns(l, result) == [l EXCEPT !.pc = "returned", !.result = Some(result)]

\* run_login up to the loop over the steps: the first record, and the
\* navigation to the base URL, which succeeds within max_retries attempts
\* or fails the login.
RunLoginStart ==
    /\ login.pc = "start"
    /\ \E ok \in BOOLEAN :
          LET logged == [login EXCEPT !.log = @ \o StartingRecords(login.email)]
          IN  IF ~ok THEN LoginCallStep(LoginReturns(logged, Err("Failed to navigate")))
              ELSE IF login.steps = <<>>
              THEN LoginCallStep(LoginReturns(logged, Ok("()")))
              ELSE LoginCallStep([logged EXCEPT !.pc = "steps"])

\* One turn of the loop over the steps: a step that fails is passed over
\* when it is optional and returned otherwise.
RunLoginStep ==
    /\ login.pc = "steps"
    /\ LET i    == login.step + 1
           step == login.steps[i]
       IN  \E page_ok \in StepOutcomes(step) :
              LET r   == ExecuteStep(step, login.email, login.password, page_ok)
                  ran == [login EXCEPT
                             !.step = i,
                             !.executed = Append(@, i),
                             !.log = @ \o <<LogRecord("Executing login step", <<>>)>>
                                       \o r.log]
              IN  IF ~r.result.ok /\ ~step.optional
                  THEN LoginCallStep(LoginReturns(ran, r.result))
                  ELSE IF i = Len(login.steps)
                  THEN LoginCallStep(LoginReturns(ran, Ok("()")))
                  ELSE LoginCallStep(ran)

\* ----------------------------------------------------------------- sessions
\* Duration::hours(8) and Duration::days(30), the life of a session
SessionHours == 8
StayLoggedInDays == 30

\* is_admin_login
IsAdminLogin(email, password) == email = "Admin" /\ password = "SWFL_ADMIN"

\* create_session: INSERT INTO sessions (token, email, is_admin,
\*  stay_logged_in, expires_at) with a fresh token
CreateSession(ss, t, email, stay_logged_in, is_admin) ==
    LET token == ss.tokens + 1
        row   == [email          |-> email,
                  is_admin       |-> is_admin,
                  stay_logged_in |-> stay_logged_in,
                  expires_at     |-> IF stay_logged_in
                                     THEN t + StayLoggedInDays * 24 * 60
                                     ELSE t + SessionHours * 60]
    IN  [rows   |-> [k \in DOMAIN ss.rows \cup {token} |->
                        IF k = token THEN row ELSE ss.rows[k]],
         tokens |-> token]

\* The Session validate_session returns for a token that is not valid.
NoSession == [token |-> "", email |-> "", is_admin |-> FALSE, valid |-> FALSE]

\* validate_session: the row of the token, if Utc::now() < expires_at
ValidateSession(ss, t, token) ==
    IF token \in DOMAIN ss.rows /\ t < ss.rows[token].expires_at
    THEN [token |-> token, email |-> ss.rows[token].email,
          is_admin |-> ss.rows[token].is_admin, valid |-> TRUE]
    ELSE NoSession

\* clear_session: DELETE FROM sessions WHERE token = ?
ClearSession(ss, token) ==
    [ss EXCEPT !.rows = [k \in DOMAIN ss.rows \ {token} |-> ss.rows[k]]]

\* clear_user_sessions: DELETE FROM sessions WHERE email = ?
ClearUserSessions(ss, email) ==
    [ss EXCEPT !.rows = [k \in {j \in DOMAIN ss.rows : ss.rows[j].email # email}
                            |-> ss.rows[k]]]

\* The tokens callers hold or make up, and what they log in with.
Tokens == 1..MaxSessions
Users == {"Admin", "user1"}
LoginPasswords == {"SWFL_ADMIN", "secret"}

\* A step of the session commands: the table or the clock changes.
SessionStep(ss, t) ==
    /\ sessions' = ss
    /\ clock' = t
    /\ UNCHANGED <<timesheet, nextId, credentials, phase, crashes, call, last,
                   bot, router, filler, login>>

\* auth_login: a session for the user, an admin's for the admin login
AuthLogin(email, password, stay_logged_in) ==
    /\ PoolSet
    /\ sessions.tokens < MaxSessions
    /\ SessionStep(CreateSession(sessions, Now, email, stay_logged_in,
                                 IsAdminLogin(email, password)),
                   clock)

\* auth_logout: with a valid session every session of its user is cleared,
\* with any other token the session of the token.
AuthLogout(token) ==
    /\ PoolSet
    /\ LET session == ValidateSession(sessions, Now, token)
       IN  IF session.valid
           THEN SessionStep(ClearUserSessions(sessions, session.email), clock)
           ELSE SessionStep(ClearSession(sessions, token), clock)

\* Time passes, up to the moment the next session expires.
SessionExpires ==
    \E token \in DOMAIN sessions.rows :
        /\ Now < sessions.rows[token].expires_at
        /\ \A k \in DOMAIN sessions.rows :
              Now < sessions.rows[k].expires_at =>
                 sessions.rows[token].expires_at <= sessions.rows[k].expires_at
        /\ SessionStep(sessions, sessions.rows[token].expires_at \div TickMinutes)

\* ----------------------------------------------------- resolving a quarter
\* get_quarter_for_date(date_str) returns.
ResolveQuarter ==
    /\ ~router.called
    /\ router' = [router EXCEPT
                     !.called = TRUE,
                     !.result = GetQuarterForDate(router.quarters,
                                                  router.date_str,
                                                  router.mock_mode)]
    /\ UNCHANGED <<timesheet, nextId, credentials, clock, phase, crashes,
                   call, last, bot, filler, login, sessions>>

\* ------------------------------------------------------- filling and submitting
\* A step of the WebformFiller: nothing but the filler changes.
FillerStep(f) ==
    /\ filler' = f
    /\ UNCHANGED <<timesheet, nextId, credentials, clock, phase, crashes,
                   call, last, bot, router, login, sessions>>

FillerReturns(f, result) == [f EXCEPT !.pc = "returned", !.result = Some(result)]

\* fill_entry up to the field loop: calculate_hours, whose failure is the
\* entry's.
FillEntryHours ==
    /\ filler.pc = "hours"
    /\ LET hours == CalculateHours(filler.entry[1].time_in,
                                   filler.entry[1].time_out)
       IN  FillerStep(IF hours.ok
                      THEN [filler EXCEPT !.pc = "field", !.field = 1,
                                          !.hours = Some(hours.value)]
                      ELSE FillerReturns(filler, hours))

\* The head of the field loop: past the last key fill_entry returns Ok; a
\* key without a definition is passed over; a field with a value goes to
\* fill_field; without one a required field fails the entry and an optional
\* one is passed over.
FillEntryNextField ==
    /\ filler.pc = "field"
    /\ LET next == [filler EXCEPT !.field = @ + 1]
       IN  IF filler.field > Len(FieldOrder)
           THEN FillerStep(FillerReturns(filler, Ok("()")))
           ELSE LET field_key == FieldOrder[filler.field]
                    field_def == FieldDef(field_key)
                    value     == FieldValues(filler.entry[1],
                                             filler.hours[1])[field_key]
                IN  IF field_def = NULL THEN FillerStep(next)
                    ELSE IF value # NULL
                    THEN FillerStep([filler EXCEPT !.pc = "fill_field",
                                                   !.step = 1])
                    ELSE IF ~field_def[1].optional
                    THEN FillerStep(FillerReturns(filler,
                             Err("Required field has no value")))
                    ELSE FillerStep(next)

\* fill_field that gives up the entry on an optional field's failure too.
FillFieldCallStrict ==
    /\ filler.pc = "fill_field"
    /\ \E ok \in BOOLEAN :
           LET field_key == FieldOrder[filler.field]
               field_def == FieldDef(field_key)[1]
               calls     == FillFieldCalls(field_def)
               made      == [filler EXCEPT
                                !.log = Append(@, <<field_key,
                                                    calls[filler.step]>>)]
           IN  IF ok /\ filler.step < Len(calls)
               THEN FillerStep([made EXCEPT !.step = @ + 1])
               ELSE IF ok
               THEN FillerStep([made EXCEPT !.pc = "field", !.step = 0,
                                            !.field = @ + 1])
               ELSE FillerStep(FillerReturns(made, Err(calls[filler.step])))

\* One call of fill_field on the page or the element, which succeeds or
\* fails.  After the last one the field is filled; a failure ends fill_field,
\* and fill_entry passes it over for an optional field and returns it for a
\* required one.
FillFieldCall ==
    /\ filler.pc = "fill_field"
    /\ \E ok \in BOOLEAN :
           LET field_key == FieldOrder[filler.field]
               field_def == FieldDef(field_key)[1]
               calls     == FillFieldCalls(field_def)
               made      == [filler EXCEPT
                                !.log = Append(@, <<field_key,
                                                    calls[filler.step]>>)]
           IN  IF ok /\ filler.step < Len(calls)
               THEN FillerStep([made EXCEPT !.step = @ + 1])
               ELSE IF ok
               THEN FillerStep([made EXCEPT !.pc = "field", !.step = 0,
                                            !.field = @ + 1])
               ELSE IF field_def.optional
               THEN FillerStep([made EXCEPT
                                   !.pc = "field", !.step = 0,
                                   !.field = @ + 1,
                                   !.tolerated = Append(@, field_key)])
               ELSE FillerStep(FillerReturns(made, Err(calls[filler.step])))

\* The pages submit_form may meet: under each fallback selector no element,
\* a button that cannot be clicked, or one that can; at most MaxButtons
\* selectors resolve.
Pages ==
    LET selectors == 1..Len(SubmitButtonFallbackLocators)
        resolving == {S \in SUBSET selectors : Cardinality(S) <= MaxButtons}
    IN  UNION {{[k \in selectors |-> IF k \in S THEN button[k] ELSE "absent"] :
                   button \in [S -> {"unclickable", "clickable"}]} :
               S \in resolving}

\* submit_form on its next selector: no element, and it goes on to the
\* next, or past the last returns "Submit button not found"; an element,
\* and it clicks it and returns what the click gave.
SubmitFormTry ==
    /\ filler.pc = "submit"
    /\ IF filler.selector > Len(SubmitButtonFallbackLocators)
       THEN FillerStep(FillerReturns(filler, Err("Submit button not found")))
       ELSE IF filler.page[1][filler.selector] = "absent"
       THEN FillerStep([filler EXCEPT !.selector = @ + 1])
       ELSE LET clicked == [filler EXCEPT
                               !.clicks = Append(@, filler.selector)]
            IN  IF filler.page[1][filler.selector] = "clickable"
                THEN FillerStep(FillerReturns(clicked, Ok("()")))
                ELSE FillerStep(FillerReturns(clicked,
                                              Err("Failed to click submit")))

\* ----------------------------------------------------------- specifications
\* A started process on an empty database.
Started ==
    /\ timesheet = <<>>
    /\ nextId = 1
    /\ clock = 0
    /\ phase = "ready"
    /\ crashes = 0
    /\ call = [c \in Calls |-> IdleCall]
    /\ bot = IdleBot

FirstCall == CHOOSE c \in Calls : \A d \in Calls : c <= d

\* One submit call at a time beside every draft and credentials command,
\* with the responses recorded.  The clock stands still and nothing crashes.
Init ==
    /\ Started /\ credentials = {} /\ last = NoCommand
    /\ router = IdleRouter /\ filler = IdleFiller /\ login = IdleLogin /\ sessions = NoSessions

Next ==
    \/ \E s \in Services : CredentialsStore(s)
    \/ \E s \in Services : CredentialsDelete(s)
    \/ \E s \in Services : SubmitCredentials(FirstCall, s)
    \/ SubmitStep(FirstCall)
    \/ \E row \in ValidRequests \cup InvalidRequests : SaveTimesheetDraft(row)
    \/ \E id \in Ids : DeleteTimesheetDraft(id)
    \/ ResetFailedToDraft

Spec == Init /\ [][Next]_vars

\* Two concurrent submit calls while new drafts are saved and failed rows
\* are reset; credentials are stored.
NewRowRequests == {row \in ValidRequests : row.id = NULL}

InitConcurrent ==
    /\ Started /\ credentials = Services /\ last = Unrecorded
    /\ router = IdleRouter /\ filler = IdleFiller /\ login = IdleLogin /\ sessions = NoSessions

NextConcurrent ==
    \/ \E c \in Calls, s \in Services : SubmitCredentials(c, s)
    \/ \E c \in Calls : SubmitStep(c)
    \/ \E row \in NewRowRequests : SaveTimesheetDraft(row)
    \/ ResetFailedToDraft

SpecConcurrent == InitConcurrent /\ [][NextConcurrent]_vars

\* The process from its first start, over crashes and restarts while time
\* passes, with one submit call at a time.
InitRestart ==
    /\ FirstStart /\ last = NoCommand
    /\ router = IdleRouter /\ filler = IdleFiller /\ login = IdleLogin /\ sessions = NoSessions

NextRestart ==
    \/ Initialize
    \/ InitializeFails
    \/ StartupRecovery
    \/ Crash
    \/ Tick
    \/ \E s \in Services : CredentialsStore(s)
    \/ \E s \in Services : SubmitCredentials(FirstCall, s)
    \/ SubmitStep(FirstCall)
    \/ \E row \in NewRowRequests : SaveTimesheetDraft(row)

SpecRestart == InitRestart /\ [][NextRestart]_vars

\* One submission at a time with the bot run step by step; drafts are saved
\* until the call has loaded its rows, and failed rows are reset between
\* submissions.
NoCallRunning == \A c \in Calls : call[c].pc = "idle"

RowsNotLoaded == \A c \in Calls : call[c].pc \in {"idle", "mark", "load"}

InitBot ==
    /\ Started /\ credentials = Services /\ last = Unrecorded
    /\ router = IdleRouter /\ filler = IdleFiller /\ login = IdleLogin /\ sessions = NoSessions

NextBot ==
    \/ RowsNotLoaded /\ \E row \in NewRowRequests : SaveTimesheetDraft(row)
    \/ NoCallRunning /\ ResetFailedToDraft
    \/ \E s \in Services : SubmitCredentials(FirstCall, s)
    \/ SubmitMark(FirstCall)
    \/ SubmitLoad(FirstCall)
    \/ RunTimesheetCall(FirstCall)
    \/ BotStart
    \/ BotNewPage
    \/ LoginNavigate
    \/ LoginExecuteStep
    \/ NavigateToForm
    \/ FillEntry
    \/ SubmitForm
    \/ BotClose
    \/ CloseAgain
    \/ RunTimesheetReturn(FirstCall)
    \/ SubmitReconcile(FirstCall)
    \/ SubmitFailAll(FirstCall)

SpecBot == InitBot /\ [][NextBot]_vars

\* The date strings get_quarter_for_date is called with: every year, month
\* and day below joined by "-" or by "/", and some strings of other shapes.
YearStrs ==
    {<<"2", "0", "2", "4">>, <<"2", "0", "2", "5">>, <<"2", "0", "2", "6">>,
     <<"2", "5">>}

MonthStrs == {TwoDigits(n) : n \in 0..MaxMonth} \cup {<<"7">>}

DayStrs == {TwoDigits(n) : n \in 0..MaxDay} \cup {<<"1">>}

OtherDateStrs ==
    {<<>>,
     <<"t", "o", "d", "a", "y">>,
     <<"2", "0", "2", "5", "0", "7", "0", "1">>,
     <<"2", "0", "2", "5", "-", "0", "7">>,
     <<"2", "0", "2", "5", "-", "0", "7", "-", "0", "1", "x">>,
     <<"2", "0", "2", "5", "-", "0", "7", "-", "0", "1", "-">>,
     <<"2", "0", "2", "5", "-", "0", "7", "/", "0", "1">>,
     <<"2", "0", "2", "5", "0", "-", "0", "7", "-", "0", "1">>,
     <<"2", "0", "2", "5", "-", "0", "7", "-", "0", "1", "0">>,
     <<"+", "2", "0", "2", "5", "-", "0", "7", "-", "0", "1">>,
     <<"-", "2", "0", "2", "5", "-", "0", "7", "-", "0", "1">>}

DateInputs ==
    {y \o <<sep>> \o m \o <<sep>> \o d :
        y \in YearStrs, m \in MonthStrs, d \in DayStrs, sep \in {"-", "/"}}
    \cup OtherDateStrs

\* One call of get_quarter_for_date, on any of the date strings, with mock
\* mode on or off.
InitQuarter ==
    /\ Started /\ credentials = {} /\ last = NoCommand
    /\ router \in {[IdleRouter EXCEPT !.date_str = s, !.mock_mode = m] :
                      s \in DateInputs, m \in BOOLEAN}
    /\ filler = IdleFiller /\ login = IdleLogin /\ sessions = NoSessions

NextQuarter == ResolveQuarter

SpecQuarter == InitQuarter /\ [][NextQuarter]_vars

\* The quarter lists get_quarter_definitions() may be edited to: the one it
\* holds, one whose second quarter ends a day early (a gap), and one whose
\* second quarter ends a day late (an overlap).
QuarterConfigurations ==
    {GetQuarterDefinitions,
     [GetQuarterDefinitions EXCEPT
         ![2].end_date = <<"2", "0", "2", "5", "-", "0", "6", "-", "2", "9">>],
     [GetQuarterDefinitions EXCEPT
         ![2].end_date = <<"2", "0", "2", "5", "-", "0", "7", "-", "0", "1">>]}

\* One call of get_quarter_for_date on any of the quarter lists.
InitQuarterConfig ==
    /\ Started /\ credentials = {} /\ last = NoCommand
    /\ router \in {[IdleRouter EXCEPT !.quarters = q, !.date_str = s,
                                      !.mock_mode = m] :
                      q \in QuarterConfigurations, s \in DateInputs,
                      m \in BOOLEAN}
    /\ filler = IdleFiller /\ login = IdleLogin /\ sessions = NoSessions

SpecQuarterConfig == InitQuarterConfig /\ [][NextQuarter]_vars

\* The time strings fill_entry is called with, beside those above: 17:30,
\* 00:00, 23:59, 09:60, 9:5, -1:00, the empty string, ab:cd and 09:00:00.
FillTimeStrs ==
    {T0900, T0907, T2400, TNoColon,
     <<"1", "7", ":", "3", "0">>,
     <<"0", "0", ":", "0", "0">>,
     <<"2", "3", ":", "5", "9">>,
     <<"0", "9", ":", "6", "0">>,
     <<"9", ":", "5">>,
     <<"-", "1", ":", "0", "0">>,
     <<>>,
     <<"a", "b", ":", "c", "d">>,
     <<"0", "9", ":", "0", "0", ":", "0", "0">>}

\* The entries fill_entry is called with: any two of the time strings, with
\* and without a tool and a charge code.
Entries ==
    [project : {"PRJ-1"}, date : {"2025-09-30"},
     time_in : FillTimeStrs, time_out : FillTimeStrs,
     tool : Option({"Tool A"}), charge_code : Option({"CC-1"}),
     task_description : {"work"}]

\* One call on the WebformFiller: fill_entry on any entry, or submit_form on
\* any page.
InitForm ==
    /\ Started /\ credentials = {} /\ last = NoCommand
    /\ router = IdleRouter /\ login = IdleLogin /\ sessions = NoSessions
    /\ filler \in
           {[IdleFiller EXCEPT !.pc = "hours", !.entry = Some(e)] :
               e \in Entries}
           \cup {[IdleFiller EXCEPT !.pc = "submit", !.selector = 1,
                                    !.page = Some(page)] : page \in Pages}

NextForm ==
    \/ FillEntryHours
    \/ FillEntryNextField
    \/ FillFieldCall
    \/ SubmitFormTry

SpecForm == InitForm /\ [][NextForm]_vars

\* The Input steps a configuration may hold: with the key of the email or
\* of the password, with a key that names neither, and with none; optional
\* or not, sensitive or not.
InputStepVariants ==
    {LoginStep("Input", "Input", Some("#input"), value_key, optional, sensitive) :
        value_key \in Option({"email", "password", "username"}),
        optional \in BOOLEAN, sensitive \in BOOLEAN}

\* The configurations run_login is checked on: login_steps(), and each
\* Input step followed by the last step of login_steps().
LoginConfigurations ==
    {LoginSteps}
        \cup {<<step, LoginSteps[Len(LoginSteps)]>> : step \in InputStepVariants}

\* The credentials: addresses with a local part and a domain, passwords that
\* are not empty.
Emails ==
    {<<"a", "@", "x">>, <<"b", "@", "x">>, <<"a", "@", "y">>}

Passwords == {<<"p", "1">>, <<"q", "2">>}

\* One call of run_login.
InitLogin ==
    /\ Started /\ credentials = {} /\ last = NoCommand
    /\ router = IdleRouter /\ filler = IdleFiller /\ sessions = NoSessions
    /\ login \in
           {[IdleLogin EXCEPT !.pc = "start", !.steps = steps, !.email = email,
                              !.password = password] :
               steps \in LoginConfigurations, email \in Emails,
               password \in Passwords}

NextLogin ==
    \/ RunLoginStart
    \/ RunLoginStep

SpecLogin == InitLogin /\ [][NextLogin]_vars

\* The session commands in any order, from an empty sessions table.
InitAuth ==
    /\ Started /\ credentials = {} /\ last = NoCommand
    /\ router = IdleRouter /\ filler = IdleFiller /\ login = IdleLogin
    /\ sessions = NoSessions

NextAuth ==
    \/ \E email \in Users, password \in LoginPasswords, stay \in BOOLEAN :
          AuthLogin(email, password, stay)
    \/ \E token \in Tokens : AuthLogout(token)
    \/ SessionExpires

SpecAuth == InitAuth /\ [][NextAuth]_vars

\* --------------------------------------------------------------- properties
StatusOf(ts, i) == ts[i].status

\* The status changes the lifecycle allows.
LegalChanges ==
    {<<"Draft", "Submitting">>, <<"Submitting", "Complete">>,
     <<"Submitting", "Failed">>, <<"Failed", "Draft">>}

\* A step of the submission pipeline: a step of a running submit call, the
\* recovery pass, or the reset of the failed rows.
PipelineStep ==
    \/ \E c \in Calls : call[c].pc # "idle" /\ call'[c] # call[c]
    \/ phase = "pool" /\ phase' = "ready"
    \/ ResetFailedToDraft

\* C1: in every step of the submission pipeline, every row whose status
\* changes goes Draft->Submitting, Submitting->Complete, Submitting->Failed
\* or Failed->Draft.
C1_OnlyLegalStatusChanges ==
    [][PipelineStep =>
         \A i \in (DOMAIN timesheet) \cap (DOMAIN timesheet') :
            \/ StatusOf(timesheet', i) = StatusOf(timesheet, i)
            \/ <<StatusOf(timesheet, i), StatusOf(timesheet', i)>> \in LegalChanges]_vars

\* C2: Complete is terminal: no step changes the status of a Complete row
\* or removes it.
C2_CompleteIsTerminal ==
    [][\A i \in DOMAIN timesheet :
          StatusOf(timesheet, i) = "Complete" =>
             i \in DOMAIN timesheet' /\ StatusOf(timesheet', i) = "Complete"]_vars

\* A call that has passed its mark step and has not finished reconciling.
InFlight(c) == call[c].pc \in {"load", "rollback", "run", "reconcile", "fail_all"}

\* C3: at most one submission run is in flight at any time.
C3_AtMostOneRunInFlight == Cardinality({c \in Calls : InFlight(c)}) <= 1

\* The rows a call has handed to the Orchestrator.
HandedOver(c) ==
    IF call[c].pc \in {"reconcile", "fail_all"} \/
       (call[c].pc = "run" /\ call[c].db_entries # <<>>)
    THEN {call[c].db_entries[k] : k \in 1..Len(call[c].db_entries)}
    ELSE {}

\* C4: every row a call hands to the Orchestrator is a row that this call
\* moved from Draft to Submitting; a row that was Submitting before the call
\* is never handed over.
C4_HandsOverOnlyItsOwnRows == \A c \in Calls : HandedOver(c) \subseteq call[c].claimed

\* C5: when a call that marked at least one row returns, no row is left in
\* Submitting status.
C5_NoSubmittingLeftAtReturn ==
    [][\A c \in Calls :
          InFlight(c) /\ call'[c].pc = "idle" =>
             IdsWithStatus(timesheet', "Submitting") = {}]_vars

NothingToSubmit ==
    SubmitResponse(Some(Message("No draft entries to submit", 0, "")), NULL, FALSE)

\* C7: a mark step that finds no Draft row returns "No draft entries to
\* submit" with no browser started and leaves every row as it was.
C7_NothingToSubmit ==
    [][\A c \in Calls :
          /\ call[c].pc = "mark"
          /\ call'[c] # call[c]
          /\ IdsWithStatus(timesheet, "Draft") = {}
          => /\ timesheet' = timesheet
             /\ call'[c].pc = "idle"
             /\ last' = NothingToSubmit]_vars

\* C7 witness: the call has just reported nothing to submit over a store
\* that holds rows, none of them Draft.
C7_Witness ==
    /\ last = NothingToSubmit
    /\ DOMAIN timesheet # {}
    /\ IdsWithStatus(timesheet, "Draft") = {}

\* C8: a submit request made while no credentials are stored returns a
\* credentials-missing error at once: no call starts, no browser starts and
\* no row changes.
C8_NoCredentialsAborts ==
    [][/\ \A c \in Calls : call[c].pc = "idle"
       /\ PoolSet
       /\ credentials = {}
       /\ (call' # call \/ last'.op = "timesheet_submit")
       => /\ call' = call
          /\ timesheet' = timesheet
          /\ \E s \in Services :
                last' = SubmitResponse(
                            Some(Message("No credentials found for service", 0, s)),
                            NULL, FALSE)]_vars

\* C8 witness: the credentials-missing error has just been returned while
\* a Draft row is waiting.
C8_Witness ==
    /\ last.op = "timesheet_submit"
    /\ last.error # NULL
    /\ last.error[1].msg = "No credentials found for service"
    /\ IdsWithStatus(timesheet, "Draft") # {}

\* A Submitting row whose start stamp is more than 30 minutes old.
OlderThanThreshold(r) ==
    /\ r.status = "Submitting"
    /\ r.submission_started_at # NULL
    /\ Now - r.submission_started_at[1] > StaleMinutes

\* C9: the recovery pass moves to Failed, with the start stamp cleared,
\* exactly the Submitting rows whose stamp is more than 30 minutes old,
\* leaves every other row as it was, and returns the number of rows moved.
C9_RecoveryMovesExactlyTheStale ==
    [][phase = "pool" /\ phase' = "ready" =>
          /\ DOMAIN timesheet' = DOMAIN timesheet
          /\ \A i \in DOMAIN timesheet :
                timesheet'[i] =
                   IF OlderThanThreshold(timesheet[i])
                   THEN [timesheet[i] EXCEPT !.status = "Failed",
                                             !.submission_started_at = NULL]
                   ELSE timesheet[i]
          /\ last'.changes =
                Some(Cardinality({i \in DOMAIN timesheet :
                                     OlderThanThreshold(timesheet[i])}))]_vars

\* C9 witness: the recovery pass has just moved one row, and left alone a
\* row that has been Submitting for exactly 30 minutes.
C9_Witness ==
    /\ last.op = "recover_stuck_submissions"
    /\ last.changes = Some(1)
    /\ \E i \in DOMAIN timesheet : timesheet[i].status = "Failed"
    /\ \E i \in DOMAIN timesheet :
          /\ timesheet[i].status = "Submitting"
          /\ Now - timesheet[i].submission_started_at[1] = StaleMinutes

\* C10: a submit call has performed its mark step only if the startup
\* recovery pass has completed.
C10_RecoveryBeforeAnyMark == \A c \in Calls : InFlight(c) => phase = "ready"

\* C11: reset_failed_to_draft moves every Failed row, and no other row, to
\* Draft and returns the number of rows moved; a second call right after the
\* first changes no row and returns 0.
C11_ResetFailedIsIdempotent ==
    [][last'.op = "reset_failed_to_draft" =>
          /\ DOMAIN timesheet' = DOMAIN timesheet
          /\ \A i \in DOMAIN timesheet :
                IF timesheet[i].status = "Failed"
                THEN /\ timesheet'[i].status = "Draft"
                     /\ timesheet'[i].submission_started_at = NULL
                     /\ [timesheet'[i] EXCEPT !.status = "Failed",
                                              !.submission_started_at = NULL]
                        = [timesheet[i] EXCEPT !.submission_started_at = NULL]
                ELSE timesheet'[i] = timesheet[i]
          /\ last'.success
          /\ last'.changes =
                Some(Cardinality({i \in DOMAIN timesheet :
                                     timesheet[i].status = "Failed"}))
          /\ last.op = "reset_failed_to_draft" =>
                timesheet' = timesheet /\ last'.changes = Some(0)]_vars

\* C11 witness: a reset has just moved the one Failed row to Draft beside a
\* Complete row that it left alone.
C11_Witness ==
    /\ last.op = "reset_failed_to_draft"
    /\ last.changes = Some(1)
    /\ \E i, j \in DOMAIN timesheet :
          timesheet[i].status = "Draft" /\ timesheet[j].status = "Complete"

\* The run is in run_login or navigating to the form.
BeforeFill(b) == b.pc \in {"goto", "login_step", "navigate"}

\* C12: when login or the navigation to the form fails, run_automation has
\* attempted no fill and no submit and returns a result in which each row
\* index 0..total_rows-1 appears once in the error list, all with the same
\* message, the filled-index list is empty, success is false and
\* failure_count is total_rows.
C12_LoginOrNavigationFailureFailsEveryRow ==
    [][BeforeFill(bot) /\ ~BeforeFill(bot') /\ bot'.pc # "fill" =>
          /\ bot'.pc = "close"
          /\ bot'.fills = <<>>
          /\ bot'.submits = 0
          /\ bot'.outcome # NULL
          /\ bot'.outcome[1].ok
          /\ LET r == bot'.outcome[1].value
                 n == bot.total_rows
             IN  /\ r.total_rows = n
                 /\ ~r.success
                 /\ r.submitted_indices = <<>>
                 /\ r.success_count = 0
                 /\ r.failure_count = n
                 /\ Len(r.errors) = n
                 /\ \A i \in 0..(n - 1) : \E k \in 1..n : r.errors[k][1] = i
                 /\ \A k \in 1..n : r.errors[k][2] = r.errors[1][2]]_vars

\* C12 witness: a required login step has failed in a run of two rows, and
\* the run is about to close the browser with both rows in the error list.
C12_Witness ==
    /\ bot.pc = "close"
    /\ bot.total_rows = 2
    /\ bot.login_log # <<>>
    /\ ~bot.step_ok
    /\ bot.fills = <<>>
    /\ bot.outcome # NULL
    /\ bot.outcome[1].ok
    /\ bot.outcome[1].value.failure_count = 2

\* The indices 0..n-1 in order.
InputOrder(n) == [k \in 1..n |-> k - 1]

RowsInError(r) == {r.errors[k][1] : k \in 1..Len(r.errors)}

C15_SuccessIffSomeRowFilled ==
    bot.outcome # NULL /\ bot.outcome[1].ok =>
       (bot.outcome[1].value.success <=>
           bot.outcome[1].value.submitted_indices # <<>>)

\* C16: on every exit of run_timesheet after the browser was started, close
\* has been called and the orchestrator holds no browser; a call of close on
\* an orchestrator that holds no browser, before start or after a close,
\* returns Ok and changes nothing.
C16_BrowserIsAlwaysReleased ==
    [][/\ bot'.pc = "returned" /\ bot'.started =>
             /\ ~bot'.browser_manager
             /\ bot.pc = "close" \/ (bot.pc = "returned" /\ bot.closes > 0)
       /\ bot'.browser_manager =>
             bot'.started /\ bot'.pc \notin {"idle", "start", "returned"}
       /\ bot.pc \in {"start", "returned"} /\ bot'.pc = bot.pc /\ bot' # bot =>
             /\ ~bot.browser_manager
             /\ bot'.close_ret = "Ok"
             /\ [bot' EXCEPT !.closes = 0, !.close_ret = ""]
                = [bot EXCEPT !.closes = 0, !.close_ret = ""]]_vars

\* C16 witness: the page could not be created after the browser had
\* started; run_timesheet closed the browser, and close was called again.
C16_Witness ==
    /\ bot.pc = "returned"
    /\ bot.started
    /\ ~bot.browser_manager
    /\ bot.outcome = Some(Err("Failed to create page"))
    /\ bot.closes = 2
    /\ bot.close_ret = "Ok"

\* The positions 1..n of the login steps, in configuration order.
ConfigurationOrder(n) == [k \in 1..n |-> k]

\* C17: run_login executes the login steps in configuration order without
\* going back; after a failing optional step login goes on to the next step
\* (or ends successfully after the last), after a failing non-optional step
\* login is aborted with an error and no later step is executed.
C17_LoginStepsInOrder ==
    [][/\ bot'.login_log = ConfigurationOrder(Len(bot'.login_log))
       /\ Len(bot'.login_log) <= Len(LoginSteps)
       /\ bot.pc = "login_step" /\ bot' # bot =>
             LET i == Len(bot.login_log) + 1
             IN  /\ bot'.login_log = Append(bot.login_log, i)
                 /\ IF bot'.step_ok \/ LoginSteps[i].optional
                    THEN /\ bot'.outcome = NULL
                         /\ bot'.pc = IF i < Len(LoginSteps) THEN "login_step"
                                      ELSE "navigate"
                    ELSE /\ bot'.pc = "close"
                         /\ bot'.outcome # NULL
                         /\ ~bot'.outcome[1].value.success
       /\ bot.pc # "login_step" /\ bot'.pc # "idle" =>
             /\ bot'.login_log = bot.login_log
             /\ bot'.pc = "login_step" => bot.pc = "goto" /\ bot.login_log = <<>>]_vars

\* C17 witness: the optional third step has failed and login is going on
\* with the fourth.
C17_Witness ==
    /\ bot.pc = "login_step"
    /\ bot.login_log = <<1, 2, 3>>
    /\ LoginSteps[3].optional
    /\ ~bot.step_ok

\* C18: run_login attempts the initial page load at most max_retries (3)
\* times and stops at the first attempt that succeeds; when every attempt
\* has failed login returns its error with no login step executed; a login
\* step is executed only after a page-load attempt has succeeded.
C18_PageLoadRetriesAreBounded ==
    [][/\ bot'.attempt <= 3
       /\ bot'.login_log # <<>> => bot'.loaded
       /\ bot'.loaded /\ bot'.pc # "idle" /\ bot.pc # "goto" =>
             bot'.attempt = bot.attempt
       /\ bot.pc = "goto" /\ bot' # bot =>
             /\ ~bot.loaded
             /\ bot'.attempt = bot.attempt + 1
             /\ bot'.login_log = <<>>
             /\ IF bot'.loaded THEN bot'.pc = "login_step" /\ bot'.outcome = NULL
                ELSE IF bot'.attempt < MaxRetries
                THEN bot'.pc = "goto" /\ bot'.outcome = NULL
                ELSE /\ bot'.pc = "close"
                     /\ bot'.outcome # NULL
                     /\ ~bot'.outcome[1].value.success
                     /\ bot'.outcome[1].value.errors =
                           AllRowsFailed(bot.total_rows, "Authentication failed")]_vars

\* C18 witness: the third page-load attempt has failed and login has
\* returned its error without executing a login step.
C18_Witness ==
    /\ bot.pc = "close"
    /\ bot.attempt = MaxRetries
    /\ ~bot.loaded
    /\ bot.login_log = <<>>
    /\ bot.outcome # NULL


\* ---- the quarter router
\* A string in YYYY-MM-DD form: four digits, two digits, two digits, with a
\* "-" between them.
InYmdForm(s) ==
    /\ Len(s) = 10
    /\ \A k \in {1, 2, 3, 4, 6, 7, 9, 10} : IsDigit(s[k])
    /\ s[5] = "-" /\ s[8] = "-"

\* The year, month and day a string in YYYY-MM-DD form spells.
YmdOf(s) ==
    [year  |-> DigitsValue(SubSeq(s, 1, 4)),
     month |-> DigitsValue(SubSeq(s, 6, 7)),
     day   |-> DigitsValue(SubSeq(s, 9, 10))]

\* A string in YYYY-MM-DD form that spells a day of the calendar.
IsYmdDate(s) ==
    /\ InYmdForm(s)
    /\ YmdOf(s).month \in 1..12
    /\ YmdOf(s).day \in 1..DaysInMonth(YmdOf(s).year, YmdOf(s).month)

\* The configured quarters whose inclusive range holds the day d, by their
\* place in the list.
QuartersHolding(d) ==
    {i \in 1..Len(GetQuarterDefinitions) :
        /\ IsYmdDate(GetQuarterDefinitions[i].start_date)
        /\ IsYmdDate(GetQuarterDefinitions[i].end_date)
        /\ DateKey(YmdOf(GetQuarterDefinitions[i].start_date)) <= DateKey(d)
        /\ DateKey(d) <= DateKey(YmdOf(GetQuarterDefinitions[i].end_date))}

ResolvesTo(s, id) ==
    router.date_str = s => router.result # NULL /\ router.result[1].id = id

C20_QuartersContiguousAndUnique ==
    LET quarters == GetQuarterDefinitions
        n        == Len(quarters)
        start(i) == ParseFromStr(quarters[i].start_date)
        end(i)   == ParseFromStr(quarters[i].end_date)
        date     == ParseFromStr(router.date_str)
    IN  /\ \A i \in 1..n : start(i) # NULL /\ end(i) # NULL
        /\ \A i \in 1..(n - 1) : start(i + 1) = Some(NextDay(end(i)[1]))
        /\ \A i, j \in 1..n : i # j => quarters[i].form_id # quarters[j].form_id
        /\ /\ date # NULL
           /\ DateKey(start(1)[1]) <= DateKey(date[1])
           /\ DateKey(date[1]) <= DateKey(end(n)[1])
           => Cardinality({i \in 1..n : QuarterContains(quarters[i], date[1])}) = 1

\* The first day of the third quarter, the day after the second ends, is
\* looked up and resolves to the third quarter.
C20_Witness ==
    /\ router.called
    /\ ~router.mock_mode
    /\ ParseFromStr(router.date_str) = Some([year |-> 2025, month |-> 7, day |-> 1])
    /\ router.result # NULL
    /\ router.result[1].id = "Q3-2025"

\* ---- the webform filler
\* A time string of two numeric parts, the hours in 0..23 and the minutes in
\* 0..59.
WellFormedTime(s) ==
    LET parts == SplitColon(s)
    IN  /\ Len(parts) = 2
        /\ \A k \in 1..2 : parts[k] # <<>> /\ \A i \in 1..Len(parts[k]) : IsDigit(parts[k][i])
        /\ DigitsValue(parts[1]) \in 0..23
        /\ DigitsValue(parts[2]) \in 0..59

MinutesOfDay(s) ==
    DigitsValue(SplitColon(s)[1]) * 60 + DigitsValue(SplitColon(s)[2])

\* The string writes a number with exactly two decimals, and no number with
\* two decimals is nearer to minutes / 60.
TwoDecimalsOf(s, minutes) ==
    /\ Len(s) >= 4
    /\ s[Len(s) - 2] = "."
    /\ \A i \in 1..Len(s) : i # Len(s) - 2 => IsDigit(s[i])
    /\ LET hundredths == DigitsValue(SubSeq(s, 1, Len(s) - 3)) * 100
                             + DigitsValue(SubSeq(s, Len(s) - 1, Len(s)))
       IN  /\ 60 * hundredths - 100 * minutes <= 30
           /\ 100 * minutes - 60 * hundredths <= 30

\* calculate_hours has returned for the entry of the fill_entry call.
HoursReturned == filler.entry # NULL /\ filler.pc # "hours"

\* C21: calculate_hours returns, for two well-formed HH:MM times with
\* time_out not before time_in, time_out - time_in in hours with exactly two
\* decimals (09:00 and 17:30 give "8.50"); it returns a fill failure when
\* time_out is before time_in, and a fill failure for every string that is
\* not two numeric parts within the ranges.
C21_CalculateHours ==
    HoursReturned =>
        LET time_in  == filler.entry[1].time_in
            time_out == filler.entry[1].time_out
            failed   == /\ filler.hours = NULL
                        /\ filler.result # NULL
                        /\ ~filler.result[1].ok
        IN  IF WellFormedTime(time_in) /\ WellFormedTime(time_out)
            THEN IF MinutesOfDay(time_out) >= MinutesOfDay(time_in)
                 THEN /\ filler.hours # NULL
                      /\ TwoDecimalsOf(filler.hours[1],
                             MinutesOfDay(time_out) - MinutesOfDay(time_in))
                      /\ time_in = T0900
                             /\ time_out = <<"1", "7", ":", "3", "0">>
                         => filler.hours[1] = <<"8", ".", "5", "0">>
                 ELSE failed
            ELSE failed

\* ---- the rows of the store
\* Times as the store keeps them, in minutes of the day: both a multiple of
\* 15, time_out after time_in.
ValidTimes(r) ==
    /\ r.time_in \in 0..1439 /\ r.time_in % 15 = 0
    /\ r.time_out \in 0..1439 /\ r.time_out % 15 = 0
    /\ r.time_out > r.time_in

\* A request save_timesheet_draft has to reject.
ViolatesRowRules(row) ==
    \/ row.date = "" \/ row.project = "" \/ row.task_description = ""
    \/ ~WellFormedTime(row.time_in) \/ ~WellFormedTime(row.time_out)
    \/ MinutesOfDay(row.time_in) % 15 # 0
    \/ MinutesOfDay(row.time_out) % 15 # 0
    \/ MinutesOfDay(row.time_out) <= MinutesOfDay(row.time_in)

RequestsToReject ==
    {row \in ValidRequests \cup InvalidRequests : ViolatesRowRules(row)}

\* C22: every row of the store has time_out after time_in, both a multiple
\* of 15 minutes in 0..1439; save_timesheet_draft answers a row that breaks
\* this, has malformed times or an empty date, project or task description
\* with an error and leaves the store as it was.
C22_StoredTimesAreValid ==
    [][/\ \A i \in DOMAIN timesheet' : ValidTimes(timesheet'[i])
       /\ \A row \in RequestsToReject :
              SaveTimesheetDraft(row)
              => /\ timesheet' = timesheet
                 /\ last'.op = "save_timesheet_draft"
                 /\ ~last'.success
                 /\ last'.error # NULL]_vars

\* C22 witness: a row is stored, some of them about to be submitted, and the
\* last save was turned down for its minutes.
C22_Witness ==
    /\ IdsWithStatus(timesheet, "Submitting") # {}
    /\ last.op = "save_timesheet_draft"
    /\ ~last.success
    /\ last.error = Some(Message("Times must be in 15-minute increments", 0, ""))

\* The rows a step moves from Draft to Submitting.
ClaimedInStep ==
    {i \in DOMAIN timesheet :
        /\ timesheet[i].status = "Draft"
        /\ i \in DOMAIN timesheet'
        /\ timesheet'[i].status = "Submitting"}

\* C23: the claim of a timesheet_submit call is one step on the whole row
\* set: the step that moves a row from Draft to Submitting is a call's mark
\* step and moves every row that was Draft, so a reader of the Draft rows
\* (load_timesheet_draft) finds none of that call's rows after it and all of
\* them before it.
C23_ClaimIsOneStep ==
    [][ClaimedInStep # {}
       => /\ ClaimedInStep = IdsWithStatus(timesheet, "Draft")
          /\ IdsWithStatus(timesheet', "Draft") = {}
          /\ \E c \in Calls :
                 /\ call[c].pc = "mark"
                 /\ call'[c].pc = "load"
                 /\ call'[c].claimed = ClaimedInStep]_vars

\* C23 witness: a call has just claimed two rows, with another call under
\* way beside it.
C23_Witness ==
    \E c, d \in Calls :
        /\ c # d
        /\ call[c].pc = "load"
        /\ Cardinality(call[c].claimed) = 2
        /\ \A i \in call[c].claimed : timesheet[i].status = "Submitting"
        /\ call[d].pc # "idle"

\* ---- the response of a reconciled run
\* The ids reported so far by a call that has taken a reconcile turn: the
\* response's once it has returned.
ReportedIds(c) ==
    IF call'[c].pc = "idle" THEN last'.submit_result[1].submitted_ids
    ELSE call'[c].submitted_ids

\* C24: when the Orchestrator returns a result, the submitted_ids of the
\* response are the ids of the rows this call moved to Complete, one reconcile
\* turn after the other, and success_count is their number; with two Draft
\* rows both filled and submitted, both end Complete and submitted_ids has
\* length 2.
C24_SubmittedIdsAreTheCompletedRows ==
    [][\A c \in Calls :
          call[c].pc = "reconcile" /\ call'[c] # call[c] =>
             LET id    == call[c].db_entries[call[c].idx + 1]
                 moved == /\ id \in DOMAIN timesheet
                          /\ timesheet[id].status # "Complete"
                          /\ id \in DOMAIN timesheet'
                          /\ timesheet'[id].status = "Complete"
             IN  /\ ReportedIds(c) = IF moved
                                     THEN Append(call[c].submitted_ids, id)
                                     ELSE call[c].submitted_ids
                 /\ call'[c].pc = "idle" =>
                    /\ last'.submit_result[1].success_count
                           = Len(ReportedIds(c))
                    /\ \A i \in 1..Len(ReportedIds(c)) :
                           /\ ReportedIds(c)[i] \in DOMAIN timesheet'
                           /\ timesheet'[ReportedIds(c)[i]].status = "Complete"
                    /\ Len(call[c].db_entries) = 2
                           /\ Len(call[c].result.submitted_indices) = 2
                       => Len(ReportedIds(c)) = 2]_vars

\* ------------------------------------------- the messages of timesheet_submit
\* Every row of the run the call holds failed at login.
LoginFailedRun(c) ==
    /\ call[c].errors # <<>>
    /\ \A k \in 1..Len(call[c].errors) : call[c].errors[k][2] = "Authentication failed"

\* The kind of failure the timesheet_submit call returning in this step
\* ended with, "none" when no call returns a failure.
FailureKind ==
    IF last'.op # "timesheet_submit" \/ last'.error = NULL THEN "none"
    ELSE IF \E c \in Calls : call[c].pc = "reconcile" /\ call'[c].pc = "idle"
    THEN IF \E c \in Calls : call[c].pc = "reconcile" /\ call'[c].pc = "idle"
                                /\ LoginFailedRun(c)
         THEN "login failed" ELSE "rows failed"
    ELSE IF \E c \in Calls : call[c].pc = "mark" /\ call'[c].pc = "idle"
    THEN "nothing to submit"
    ELSE IF \E c \in Calls : call[c].pc = "fail_all" /\ call'[c].pc = "idle"
    THEN "automation could not start"
    ELSE IF \E c \in Calls : call[c].pc = "rollback" /\ call'[c].pc = "idle"
    THEN "load failed"
    ELSE IF PoolSet THEN "credentials missing" ELSE "no database"

\* C25: the response of timesheet_submit tells the failure kinds apart: a run
\* whose login failed is reported as an authentication failure and not with
\* the message of a run whose rows failed to fill, and nothing to submit,
\* missing credentials and an automation that could not start have each
\* their own message.
C25_FailureKindsAreDistinguished ==
    [][/\ FailureKind = "login failed" =>
             /\ last'.error[1].msg = "Authentication failed"
             /\ last'.error[1].msg # "entries failed to submit"
       /\ FailureKind = "rows failed" =>
             last'.error[1].msg = "entries failed to submit"
       /\ FailureKind = "nothing to submit" =>
             last'.error[1].msg = "No draft entries to submit"
       /\ FailureKind = "credentials missing" =>
             last'.error[1].msg = "No credentials found for service"
       /\ FailureKind = "automation could not start" =>
             last'.error[1].msg = "Automation failed"]_vars

\* ------------------------------------------------ the order of the rows handed over
\* The sequence holds the rows in ascending (date, time-in) order.
AscendingByDateAndTimeIn(ts, ids) ==
    \A a, b \in 1..Len(ids) :
        a < b =>
           \/ DateRank(ts[ids[a]].date) < DateRank(ts[ids[b]].date)
           \/ /\ ts[ids[a]].date = ts[ids[b]].date
              /\ ts[ids[a]].time_in <= ts[ids[b]].time_in

FailedFills(b) ==
    {k \in 1..Len(b.errors) : b.errors[k][2] = "Failed to fill row"}

FieldAt == FieldOrder[filler.field]

FieldAtIsOptional == FieldDef(FieldAt)[1].optional

ValueAt == FieldValues(filler.entry[1], filler.hours[1])[FieldAt]

\* The places in field_order of the fields the page calls were made for.
LoggedPlaces(f) ==
    [k \in 1..Len(f.log) |->
        CHOOSE i \in 1..Len(FieldOrder) : FieldOrder[i] = f.log[k][1]]

\* C28: fill_entry goes through project_code, date, hours, tool,
\* task_description, detail_code in this order.  A field with a value is
\* filled; a failed fill of an optional field is passed over and the next
\* field follows; a failed fill of a required field returns that error and
\* no later field is touched; a required field without a value fails the
\* entry with no page call; an optional field without a value is skipped.
C28_FieldsInOrder ==
    [][/\ FieldOrder = <<"project_code", "date", "hours", "tool",
                         "task_description", "detail_code">>
       /\ \A a, b \in 1..Len(filler'.log) :
             a < b => LoggedPlaces(filler')[a] <= LoggedPlaces(filler')[b]
       /\ filler.pc = "field" /\ filler.field <= Len(FieldOrder) =>
             /\ filler'.log = filler.log
             /\ IF ValueAt # NULL
                THEN filler'.pc = "fill_field" /\ filler'.field = filler.field
                ELSE IF FieldAtIsOptional
                THEN filler'.pc = "field" /\ filler'.field = filler.field + 1
                ELSE /\ filler'.pc = "returned"
                     /\ ~filler'.result[1].ok
       /\ filler.pc = "field" /\ filler.field > Len(FieldOrder) =>
             /\ filler'.pc = "returned"
             /\ filler'.result[1].ok
             /\ filler'.log = filler.log
       /\ filler.pc = "fill_field" =>
             /\ Len(filler'.log) = Len(filler.log) + 1
             /\ filler'.log[Len(filler'.log)][1] = FieldAt
             /\ filler'.pc \in {"fill_field", "field", "returned"}
             /\ filler'.pc = "fill_field" => filler'.field = filler.field
             /\ filler'.pc = "field" => filler'.field = filler.field + 1
             /\ filler'.tolerated # filler.tolerated =>
                   /\ FieldAtIsOptional
                   /\ filler'.pc = "field"
             /\ filler'.pc = "returned" =>
                   /\ ~FieldAtIsOptional
                   /\ filler'.result = Some(Err(filler'.log[Len(filler'.log)][2]))
       /\ filler.pc = "returned" => filler' = filler]_vars

\* C28 witness: the entry has a tool and no charge code; the fill of the
\* tool failed and was passed over, the task description was filled after
\* it, and fill_entry returned Ok with no call made for the charge code.
C28_Witness ==
    /\ filler.pc = "returned"
    /\ filler.entry # NULL
    /\ filler.result[1].ok
    /\ filler.entry[1].charge_code = NULL
    /\ filler.tolerated = <<"tool">>
    /\ \E k \in 1..Len(filler.log) : filler.log[k][1] = "task_description"
    /\ \A k \in 1..Len(filler.log) : filler.log[k][1] # "detail_code"

\* ------------------------------------------------- the calls made for a field
\* The calls logged for a field, in the order they were made.
CallsFor(f, field_key) ==
    LET made == SelectSeq(f.log, LAMBDA e : e[1] = field_key)
    IN  [k \in 1..Len(made) |-> made[k][2]]

IsPrefix(s, t) ==
    /\ Len(s) <= Len(t)
    /\ \A k \in 1..Len(s) : s[k] = t[k]

\* What filling a field takes: for Project, Tool and Detail Charge Code the
\* down-arrow and the enter after the typing, for the others the typing
\* is the last call.
CallsToFill(field_key) ==
    IF field_key \in {"project_code", "tool", "detail_code"}
    THEN <<"find_element", "click", "type_str", "press_key ArrowDown",
           "press_key Enter">>
    ELSE <<"find_element", "click", "type_str">>

\* C29: for Project, Tool and Detail Charge Code, and for none of Date,
\* Hours and Task Description, the typing is followed by one down-arrow key
\* press and then one enter key press, and the field is filled only after
\* both; a key press that fails fails the field.
C29_DropdownKeyPresses ==
    [][/\ \A k \in 1..Len(FieldOrder) :
             IsPrefix(CallsFor(filler', FieldOrder[k]), CallsToFill(FieldOrder[k]))
       /\ filler.pc = "fill_field" =>
             LET made == filler'.log[Len(filler'.log)][2]
                 failed ==
                    \/ /\ filler'.pc = "field"
                       /\ filler'.tolerated = Append(filler.tolerated, FieldAt)
                    \/ /\ filler'.pc = "returned"
                       /\ filler'.result = Some(Err(made))
             IN  /\ filler'.pc = "field" /\ filler'.tolerated = filler.tolerated =>
                       CallsFor(filler', FieldAt) = CallsToFill(FieldAt)
                 /\ made = "press_key ArrowDown" =>
                       filler'.pc = "fill_field" \/ failed
                 /\ made = "press_key Enter" =>
                       \/ filler'.pc = "field" /\ filler'.tolerated = filler.tolerated
                       \/ failed]_vars

\* C29 witness: fill_entry has returned Ok for an entry with a tool and a
\* charge code and no failure passed over: three calls were made for the
\* date and five for the tool, the key presses last.
C29_Witness ==
    /\ filler.pc = "returned"
    /\ filler.entry # NULL
    /\ filler.result[1].ok
    /\ filler.tolerated = <<>>
    /\ CallsFor(filler, "date") = <<"find_element", "click", "type_str">>
    /\ CallsFor(filler, "tool") = CallsToFill("tool")
    /\ CallsFor(filler, "detail_code") = CallsToFill("detail_code")

\* ------------------------------------------------------- the submit button
\* The fallback selectors under which the page holds a button of the kind.
SelectorsWith(kind) ==
    {k \in 1..Len(SubmitButtonFallbackLocators) : filler.page[1][k] = kind}

\* C30: submit_form returns Ok whenever some fallback selector resolves to a
\* button that can be clicked, clicks one button at most, and returns
\* "Submit button not found" only when no selector resolves.
C30_SubmitFormFallback ==
    filler.pc = "returned" /\ filler.page # NULL =>
       /\ SelectorsWith("clickable") # {} => filler.result[1].ok
       /\ Len(filler.clicks) <= 1
       /\ filler.result = Some(Err("Submit button not found")) =>
             SelectorsWith("clickable") \cup SelectorsWith("unclickable") = {}

\* ----------------------------------------------------- the verification
\* C31: what verify_submission meets and returns never changes the result of
\* the run: whatever it had met instead, the filled indices, the errors and
\* the success flag would be the ones returned, and they are those of a
\* submit that succeeded.
C31_VerificationNeverChangesTheResult ==
    [][bot.pc = "submit" /\ bot'.verified # NULL =>
          /\ \A seen \in VerifyObservations :
                LET other == AfterSubmit(bot, TRUE, seen)
                IN  /\ other.submitted_indices = bot'.submitted_indices
                    /\ other.errors = bot'.errors
                    /\ FinalResult(other) = bot'.outcome[1]
          /\ bot'.outcome[1].ok
          /\ bot'.outcome[1].value.success
          /\ bot'.outcome[1].value.submitted_indices = bot.submitted_indices
          /\ bot'.outcome[1].value.errors = bot.errors]_vars

\* C31 witness: verification found no sign of success on the page, and the
\* run has returned a result that is a success with a row filled.
C31_Witness ==
    /\ bot.verified # NULL
    /\ bot.verified[1].seen = "nothing"
    /\ bot.outcome # NULL
    /\ bot.outcome[1].ok
    /\ bot.outcome[1].value.success
    /\ bot.outcome[1].value.submitted_indices # <<>>

\* ------------------------------------------------ the rows of a run under way
\* C32: save_timesheet_draft leaves every Submitting row as it is: its
\* status, its start stamp and its content.
C32_SaveLeavesSubmittingRows ==
    [][last'.op = "save_timesheet_draft" =>
          \A i \in DOMAIN timesheet :
              timesheet[i].status = "Submitting" =>
                 /\ i \in DOMAIN timesheet'
                 /\ timesheet'[i] = timesheet[i]]_vars

\* ------------------------------------------------------ deleting a draft
\* The ids delete_timesheet_draft finds no Draft row under.
NotADraft(id) == id \notin DOMAIN timesheet \/ timesheet[id].status # "Draft"

\* C33: delete_timesheet_draft removes the row of the id only if it is
\* Draft; with the id of a Submitting, Complete or Failed row, or of no row,
\* it answers 'Draft entry not found' and the store stays as it is.
C33_DeleteRemovesOnlyDrafts ==
    [][/\ \A id \in Ids :
             DeleteTimesheetDraft(id) /\ NotADraft(id) =>
                /\ timesheet' = timesheet
                /\ ~last'.success
                /\ last'.changes = Some(0)
                /\ last'.error = Some(Message("Draft entry not found", 0, ""))
       /\ \A id \in Ids :
             DeleteTimesheetDraft(id) /\ ~NotADraft(id) =>
                /\ DOMAIN timesheet' = DOMAIN timesheet \ {id}
                /\ \A i \in DOMAIN timesheet' : timesheet'[i] = timesheet[i]
                /\ last'.success
       /\ last'.op = "delete_timesheet_draft" =>
             \A i \in DOMAIN timesheet :
                 timesheet[i].status # "Draft" =>
                    i \in DOMAIN timesheet' /\ timesheet'[i] = timesheet[i]]_vars

\* C33 witness: every id names a row that is not Draft, one Submitting and
\* one Complete or Failed, and a delete has just answered 'Draft entry not
\* found'.
C33_Witness ==
    /\ last.op = "delete_timesheet_draft"
    /\ last.error = Some(Message("Draft entry not found", 0, ""))
    /\ DOMAIN timesheet = Ids
    /\ \A i \in Ids : timesheet[i].status # "Draft"
    /\ \E i \in Ids : timesheet[i].status = "Submitting"
    /\ \E i \in Ids : timesheet[i].status \in {"Complete", "Failed"}

\* -------------------------------------------------------------- the login
\* The step run_login is at.
StepAt == login.steps[login.step + 1]

\* An Input step whose value_key is missing or names neither credential.
HasNoValue(step) ==
    /\ step.action = "Input"
    /\ \/ step.value_key = NULL
       \/ step.value_key[1] \notin {"email", "password"}

SensitiveKeys(steps) ==
    {steps[k].value_key[1] :
        k \in {j \in 1..Len(steps) : /\ steps[j].action = "Input"
                                      /\ steps[j].sensitive
                                      /\ ~HasNoValue(steps[j])}}

\* The credentials of a run that differs from this one in sensitive values
\* only.
SensitiveVariants ==
    {c \in [email : Emails, password : Passwords] :
        /\ "email" \notin SensitiveKeys(login.steps) => c.email = login.email
        /\ "password" \notin SensitiveKeys(login.steps) =>
              c.password = login.password}

\* C35: no record logged during run_login holds the value a sensitive Input
\* step injects, the password or the whole address, and the records are the
\* same for any other sensitive values.
C35_SensitiveValuesAreNotLogged ==
    [][/\ \A k \in 1..Len(login'.log) :
             /\ "email" \in SensitiveKeys(login.steps) =>
                   ~StrContains(login'.log[k].value, login.email)
             /\ "password" \in SensitiveKeys(login.steps) =>
                   ~StrContains(login'.log[k].value, login.password)
       /\ login.pc = "start" /\ login' # login =>
             \A c \in SensitiveVariants :
                 StartingRecords(c.email) = StartingRecords(login.email)
       /\ login.pc = "steps" /\ login' # login =>
             \A c \in SensitiveVariants, page_ok \in BOOLEAN :
                 ExecuteStep(StepAt, c.email, c.password, page_ok).log
                    = ExecuteStep(StepAt, login.email, login.password, page_ok).log]_vars


\* ----------------------------------------------------- the quarter list
\* Each quarter's dates parse, and each quarter after the first starts the
\* day after the one before it ends.
Contiguous(quarters) ==
    /\ \A i \in 1..Len(quarters) :
          /\ ParseFromStr(quarters[i].start_date) # NULL
          /\ ParseFromStr(quarters[i].end_date) # NULL
    /\ \A i \in 1..(Len(quarters) - 1) :
          ParseFromStr(quarters[i + 1].start_date)
             = Some(NextDay(ParseFromStr(quarters[i].end_date)[1]))

TimesIn(r, idx) ==
    Cardinality({k \in 1..Len(r.submitted_indices) : r.submitted_indices[k] = idx})
        + Cardinality({k \in 1..Len(r.errors) : r.errors[k][1] = idx})

\* C36: the result run_automation returns holds each index below total_rows
\* once, among the filled indices or among the errors, and nothing else, so
\* success_count and failure_count add up to total_rows, after a failed
\* submit as well.
C36_ResultPartitionsTheRows ==
    bot.outcome # NULL /\ bot.outcome[1].ok =>
       LET r == bot.outcome[1].value
       IN  /\ \A idx \in 0..(r.total_rows - 1) : TimesIn(r, idx) = 1
           /\ Len(r.submitted_indices) + Len(r.errors) = r.total_rows
           /\ r.success_count = Len(r.submitted_indices)
           /\ r.failure_count = Len(r.errors)
           /\ r.success_count + r.failure_count = r.total_rows
           /\ r.total_rows = bot.total_rows

\* C36 witness: both rows of a run were filled and the submit failed; the
\* result holds both among its errors.
C36_Witness ==
    /\ bot.outcome # NULL
    /\ bot.outcome[1].ok
    /\ bot.submit_failed
    /\ bot.total_rows = 2
    /\ bot.outcome[1].value.submitted_indices = <<>>
    /\ Len(bot.outcome[1].value.errors) = 2
    /\ \A k \in 1..2 : bot.outcome[1].value.errors[k][2] = "Failed to submit form"

\* ------------------------------------------------------ the lifecycle stamps
\* C37: a row carries a start stamp exactly when it is Submitting, and a
\* Draft row carries neither a start stamp nor a submitted time.
C37_StampsFollowTheStatus ==
    \A i \in DOMAIN timesheet :
        /\ timesheet[i].submission_started_at # NULL
              <=> timesheet[i].status = "Submitting"
        /\ timesheet[i].status = "Draft" =>
              /\ timesheet[i].submission_started_at = NULL
              /\ timesheet[i].submitted_at = NULL

\* -------------------------------------------------------------- logging out
\* The token is valid now.
IsValid(token) == ValidateSession(sessions, Now, token).valid

\* C39: auth_logout(t) leaves t invalid and every other token that was valid
\* valid, whoever its user is; a token is valid only if the table holds a
\* session with it that has not expired.
C39_LogoutEndsOneSession ==
    [][/\ \A t \in Tokens :
             AuthLogout(t) =>
                /\ ~ValidateSession(sessions', Now', t).valid
                /\ \A u \in Tokens \ {t} :
                      IsValid(u) => ValidateSession(sessions', Now', u).valid
       /\ \A t \in Tokens :
             IsValid(t) =>
                /\ t \in DOMAIN sessions.rows
                /\ Now < sessions.rows[t].expires_at]_vars

====
